---- MODULE Spec2Model ----
(***************************************************************************)
(* Satellite clustering simulation (game-theory-routing).                  *)
(*                                                                         *)
(* Part 1: the region quadtree (src/src/quadtree).                         *)
(* Part 2: the simulation component (src/simulation/src/simulation.rs):    *)
(*         position ticks and the comms tick that rebuilds the quadtree,   *)
(*         elects cluster heads and assigns members.                       *)
(* Part 3: the energy game of one agent (satellite.rs, SatelliteEnergy).   *)
(* Part 4: the packet relay (packet.rs; satellite.rs, SatelliteComms).     *)
(* Part 5: the game tick over a ClusterMap (spec.md 4.3).                  *)
(* Part 6: the relay tick (src/src/simulation.rs): every agent, in id      *)
(*         order, relays to the neighbours the quadtree finds.             *)
(* Part 7: the component with clicks and resets (ClickedSat, changed),     *)
(*         with the pause button, and with satellites of different hues;   *)
(*         the relay tick over a chain of agents.                          *)
(* Part 8: weighted_mean (math.rs).                                        *)
(*                                                                         *)
(* Numbers.  The program computes with f32/f64.  The model uses integers   *)
(* as a fixed-point number system with resolution 1: a midpoint            *)
(* (a + b) / 2.0 is rounded to a representable value, here (a + b) \div 2. *)
(* Distances are carried as their squares: every use of a distance in the  *)
(* modelled code is an order comparison with another distance, and sqrt is *)
(* monotone, so the comparisons are unchanged.                             *)
(***************************************************************************)
EXTENDS Integers, Sequences, FiniteSets, TLC

VARIABLES
    qtree,              \* QT: the tree under test; Simulation.qtree : Option<QuadTree<usize>>
    calls,              \* QT: history of insert calls, <<[point, value, ok]>>
    returned,           \* QT: what the most recent quadtree call returned
    settings,           \* Props.settings (the fields the handlers read)
    paused,             \* Props.paused
    entity_props,       \* Simulation.entity_props     : Vec<SatelliteProperties>
    entity_positions,   \* Simulation.entity_positions : Vec<SatellitePosition>
    entity_energy,      \* Simulation.entity_energy    : Vec<SatelliteEnergy>
    cluster_map,        \* Simulation.cluster_map      : ClusterMap
    selected_satellite_id, \* Simulation.selected_satellite_id : Option<usize>
    should_render,      \* what the most recent update or changed returned (whether the view is drawn again)
    election,           \* the last comms tick: its candidates and heads, the positions and energies it read
    game,               \* the SatelliteEnergy under test
    game_call,          \* the most recent call on it: its name, its inputs, the value before
    game_round,         \* the last game tick: the flags its decisions set and the flags its settlements read
    entity_comms,       \* Simulation.entity_comms : Vec<SatelliteComms>
    offers,             \* the add_packet calls of the most recent SatelliteComms::update
    originated,         \* history of the packets returned by PacketSource::next
    relayed,            \* the agents whose SatelliteComms::update ran in the most recent step, in order
    age,                \* for each originated packet of the chain relay, the comms ticks completed since its tick
    mean_call           \* the most recent weighted_mean call: its input and what it returned

vars == <<qtree, calls, returned, settings, paused, entity_props,
          entity_positions, entity_energy, cluster_map, selected_satellite_id,
          should_render, election, game, game_call, game_round, entity_comms, offers,
          originated,
          relayed, age, mean_call>>

gameVars == <<game, game_call, game_round>>

commsVars == <<entity_comms, offers, originated, relayed, age>>

simVars == <<settings, paused, entity_props, entity_positions, entity_energy,
             cluster_map, selected_satellite_id, should_render, election>>

\* Option<T>
None    == <<>>
Some(x) == <<x>>

\* the elements of a list
Range(seq) == {seq[i] : i \in DOMAIN seq}

\* weighted_mean has not been called
MeanIdle == mean_call = None

-----------------------------------------------------------------------------
(* Bounds *)

\* number of insert calls made on the tree under test
MaxInserts == 3
\* bucket capacities tried for the tree under test: 1 .. MaxCapacity
MaxCapacity == 2
\* side of the root boundary of the tree under test
QTSize == 2
\* cluster sizes given to update_game: 1 .. MaxClusterSize
MaxClusterSize == 3
\* length of the neighbor lists given to SatelliteEnergy::update: 0 .. MaxNeighbors
MaxNeighbors == 2
\* number of agents that relay packets
CommsNodes == 12
\* number of packets originated in a run
MaxPackets == 2
\* number of satellites: settings.boids is drawn from 1 .. MaxBoids
MaxBoids == 3
\* number of (value, weight) pairs given to weighted_mean: 0 .. MaxItems
MaxItems == 2

-----------------------------------------------------------------------------
(* quadtree/types.rs, quadtree/box2d.rs *)

Point(x, y) == [x |-> x, y |-> y]

Entry(point, value) == [point |-> point, value |-> value]

Box2d(top_left, btm_right) == [top_left |-> top_left, btm_right |-> btm_right]

\* mutant: the x test only
contains_x_only(box, point) ==
    point.x >= box.top_left.x /\ point.x <= box.btm_right.x

contains(box, point) ==
    /\ (point.x >= box.top_left.x /\ point.x <= box.btm_right.x)
    /\ (point.y >= box.btm_right.y /\ point.y <= box.top_left.y)

\* mutant: boxes that only touch do not intersect
intersects_box_strict(box, other) ==
    /\ box.btm_right.x > other.top_left.x
    /\ box.top_left.x < other.btm_right.x
    /\ box.btm_right.y < other.top_left.y
    /\ box.top_left.y > other.btm_right.y

intersects_box(box, other) ==
    /\ box.btm_right.x >= other.top_left.x
    /\ box.top_left.x <= other.btm_right.x
    /\ box.btm_right.y <= other.top_left.y
    /\ box.top_left.y >= other.btm_right.y

\* (a + b) / 2.0, rounded to the number system's resolution
midpoint(a, b) == (a + b) \div 2

\* Box2d::subdivide: <<north-west, north-east, south-east, south-west>>
box_subdivide(box) ==
    LET top_left   == box.top_left
        btm_right  == box.btm_right
        x_midpoint == midpoint(btm_right.x, top_left.x)
        y_midpoint == midpoint(btm_right.y, top_left.y)
    IN << Box2d(top_left, Point(x_midpoint, y_midpoint)),
          Box2d(Point(x_midpoint, top_left.y), Point(btm_right.x, y_midpoint)),
          Box2d(Point(x_midpoint, y_midpoint), btm_right),
          Box2d(Point(top_left.x, y_midpoint), Point(x_midpoint, btm_right.y)) >>

-----------------------------------------------------------------------------
(* quadtree/quadtree.rs                                                    *)
(* A tree is [capacity, nodes]; nodes maps the path of a node (the child   *)
(* fields followed from the root) to its [boundary, entries].  The four    *)
(* child fields of a node are Some exactly when the paths exist.           *)

QuadTree_node(boundary) == [boundary |-> boundary, entries |-> <<>>]

QuadTree_new(boundary, capacity) ==
    [capacity |-> capacity, nodes |-> (<<>> :> QuadTree_node(boundary))]

child(path, name) == Append(path, name)

\* self.north_east.is_none()
north_east_is_none(tree, path) == child(path, "north_east") \notin DOMAIN tree.nodes

\* QuadTree::subdivide
subdivide(tree, path) ==
    LET sub_boxes == box_subdivide(tree.nodes[path].boundary)
    IN [tree EXCEPT !.nodes =
            (child(path, "north_west") :> QuadTree_node(sub_boxes[1]))
         @@ (child(path, "north_east") :> QuadTree_node(sub_boxes[2]))
         @@ (child(path, "south_east") :> QuadTree_node(sub_boxes[3]))
         @@ (child(path, "south_west") :> QuadTree_node(sub_boxes[4]))
         @@ @]

\* mutant: the node is subdivided again on every overflowing insert
RECURSIVE insert_resubdivide(_, _, _, _)
insert_resubdivide(tree, path, point, value) ==
    LET node == tree.nodes[path] IN
    IF ~contains(node.boundary, point)
    THEN [ok |-> FALSE, tree |-> tree]
    ELSE IF Len(node.entries) < tree.capacity /\ north_east_is_none(tree, path)
    THEN [ok |-> TRUE,
          tree |-> [tree EXCEPT !.nodes[path].entries = Append(@, Entry(point, value))]]
    ELSE
      LET t0 == subdivide(tree, path)
          nw == insert_resubdivide(t0, child(path, "north_west"), point, value)
      IN IF nw.ok THEN nw ELSE
      LET ne == insert_resubdivide(nw.tree, child(path, "north_east"), point, value)
      IN IF ne.ok THEN ne ELSE
      LET sw == insert_resubdivide(ne.tree, child(path, "south_west"), point, value)
      IN IF sw.ok THEN sw ELSE
      LET se == insert_resubdivide(sw.tree, child(path, "south_east"), point, value)
      IN IF se.ok THEN se ELSE
      [ok |-> FALSE, tree |-> se.tree]

\* mutant: the south-east child is tried before the south-west child
RECURSIVE insert_south_east_first(_, _, _, _)
insert_south_east_first(tree, path, point, value) ==
    LET node == tree.nodes[path] IN
    IF ~contains(node.boundary, point)
    THEN [ok |-> FALSE, tree |-> tree]
    ELSE IF Len(node.entries) < tree.capacity /\ north_east_is_none(tree, path)
    THEN [ok |-> TRUE,
          tree |-> [tree EXCEPT !.nodes[path].entries = Append(@, Entry(point, value))]]
    ELSE
      LET t0 == IF north_east_is_none(tree, path) THEN subdivide(tree, path) ELSE tree
          nw == insert_south_east_first(t0, child(path, "north_west"), point, value)
      IN IF nw.ok THEN nw ELSE
      LET ne == insert_south_east_first(nw.tree, child(path, "north_east"), point, value)
      IN IF ne.ok THEN ne ELSE
      LET se == insert_south_east_first(ne.tree, child(path, "south_east"), point, value)
      IN IF se.ok THEN se ELSE
      LET sw == insert_south_east_first(se.tree, child(path, "south_west"), point, value)
      IN IF sw.ok THEN sw ELSE
      [ok |-> FALSE, tree |-> sw.tree]

\* mutant: a node takes one entry more than its capacity before it splits
RECURSIVE insert_le_capacity(_, _, _, _)
insert_le_capacity(tree, path, point, value) ==
    LET node == tree.nodes[path] IN
    IF ~contains(node.boundary, point)
    THEN [ok |-> FALSE, tree |-> tree]
    ELSE IF Len(node.entries) <= tree.capacity /\ north_east_is_none(tree, path)
    THEN [ok |-> TRUE,
          tree |-> [tree EXCEPT !.nodes[path].entries = Append(@, Entry(point, value))]]
    ELSE
      LET t0 == IF north_east_is_none(tree, path) THEN subdivide(tree, path) ELSE tree
          nw == insert_le_capacity(t0, child(path, "north_west"), point, value)
      IN IF nw.ok THEN nw ELSE
      LET ne == insert_le_capacity(nw.tree, child(path, "north_east"), point, value)
      IN IF ne.ok THEN ne ELSE
      LET sw == insert_le_capacity(ne.tree, child(path, "south_west"), point, value)
      IN IF sw.ok THEN sw ELSE
      LET se == insert_le_capacity(sw.tree, child(path, "south_east"), point, value)
      IN IF se.ok THEN se ELSE
      [ok |-> FALSE, tree |-> se.tree]

\* QuadTree::insert on the node at path; returns [ok, tree]
RECURSIVE insert(_, _, _, _)
insert(tree, path, point, value) ==
    LET node == tree.nodes[path] IN
    IF ~contains(node.boundary, point)
    THEN [ok |-> FALSE, tree |-> tree]
    ELSE IF Len(node.entries) < tree.capacity /\ north_east_is_none(tree, path)
    THEN [ok |-> TRUE,
          tree |-> [tree EXCEPT !.nodes[path].entries = Append(@, Entry(point, value))]]
    ELSE
      LET t0 == IF north_east_is_none(tree, path) THEN subdivide(tree, path) ELSE tree
          nw == insert(t0, child(path, "north_west"), point, value)
      IN IF nw.ok THEN nw ELSE
      LET ne == insert(nw.tree, child(path, "north_east"), point, value)
      IN IF ne.ok THEN ne ELSE
      LET sw == insert(ne.tree, child(path, "south_west"), point, value)
      IN IF sw.ok THEN sw ELSE
      LET se == insert(sw.tree, child(path, "south_east"), point, value)
      IN IF se.ok THEN se ELSE
      [ok |-> FALSE, tree |-> se.tree]

\* QuadTree::query_range on the node at path; returns the list of entries
RECURSIVE query_range(_, _, _)
query_range(tree, path, range) ==
    LET node == tree.nodes[path]
        own  == SelectSeq(node.entries, LAMBDA e : contains(range, e.point))
    IN IF ~intersects_box(node.boundary, range) THEN <<>>
       ELSE IF north_east_is_none(tree, path) THEN own
       ELSE own
            \o query_range(tree, child(path, "north_west"), range)
            \o query_range(tree, child(path, "north_east"), range)
            \o query_range(tree, child(path, "south_west"), range)
            \o query_range(tree, child(path, "south_east"), range)

-----------------------------------------------------------------------------
(* math.rs: Vector2D.  Lengths are carried as their squares.               *)

Vector2D(x, y) == [x |-> x, y |-> y]

vec_add(a, b) == Vector2D(a.x + b.x, a.y + b.y)

vec_sub(a, b) == Vector2D(a.x - b.x, a.y - b.y)

magnitude_squared(v) == v.x * v.x + v.y * v.y

\* the square of Vector2D::magnitude
magnitude(v) == magnitude_squared(v)

\* the square of a configured distance, to compare it with a magnitude
squared(d) == d * d

\* std::f32::consts TAU.  Angles are counted in the twelve directions in which a circle of radius 5
\* (and 10) meets the integer grid; UnitCircle[angle + 1] is 5 * (cos, sin).
\* Three steps are a quarter turn.
FullTurn == 12

UnitCircle ==
    << Vector2D(5, 0),       Vector2D(4, 3),       Vector2D(3, 4),
       Vector2D(0, 5),       Vector2D(0 - 3, 4),   Vector2D(0 - 4, 3),
       Vector2D(0 - 5, 0),   Vector2D(0 - 4, 0 - 3), Vector2D(0 - 3, 0 - 4),
       Vector2D(0, 0 - 5),   Vector2D(3, 0 - 4),   Vector2D(4, 0 - 3) >>

from_polar(angle, radius) ==
    Vector2D((radius * UnitCircle[angle + 1].x) \div 5,
             (radius * UnitCircle[angle + 1].y) \div 5)

\* The weights of weighted_mean are counted in units of which MinNormal make
\* f32::MIN_POSITIVE, the smallest normal number: a weight of magnitude 1 is
\* subnormal.
MinNormal == 2

\* f32::is_normal: the number is neither zero nor subnormal (nor infinite nor
\* NaN, which the sums of the weights drawn here never are)
is_normal(x) == x >= MinNormal \/ x <= 0 - MinNormal

\* a / b for b # 0, rounded to the number system's resolution
quotient(a, b) == IF b > 0 THEN a \div b ELSE (0 - a) \div (0 - b)

\* math.rs:137-143: the fold over the (value, weight) pairs
RECURSIVE fold_weighted(_, _, _)
fold_weighted(it, k, acc) ==
    IF k > Len(it) THEN acc
    ELSE fold_weighted(it, k + 1,
                       [sum          |-> acc.sum + it[k][1] * it[k][2],
                        total_weight |-> acc.total_weight + it[k][2]])

\* WeightedMean::weighted_mean on a list of <<value, weight>>
weighted_mean(it) ==
    LET folded == fold_weighted(it, 1, [sum |-> 0, total_weight |-> 0])
    IN IF is_normal(folded.total_weight)
       THEN Some(quotient(folded.sum, folded.total_weight))
       ELSE None

-----------------------------------------------------------------------------
(* simulation.rs, satellite.rs: constants, scaled 1 : 50 *)

\* pub const SIZE: the side of the world (SIZE.x = SIZE.y)
SIZE == 24

\* pub const MAX_DISTANCE
MAX_DISTANCE == 12

\* Vec<T> is indexed from 0
at(vec, id) == vec[id + 1]

Ids(vec) == {i - 1 : i \in DOMAIN vec}

-----------------------------------------------------------------------------
(* satellite.rs *)

\* SatelliteProperties::new_random; orbit and hue are the random draws
SatelliteProperties_new_random(id, orbit, hue) ==
    LET distance == IF orbit = 2 THEN 5 ELSE 10
    IN [id |-> id,
        \* sqrt(STD_GRAV_PARAM / distance^3): the nearer orbit turns faster
        angular_velocity |-> IF distance = 5 THEN 6 ELSE 3,
        distance |-> distance,
        selected |-> FALSE,
        hue |-> hue]

orbit_radius(sat) == (sat.distance * (SIZE \div 2)) \div MAX_DISTANCE

screen_centre == Vector2D(SIZE \div 2, SIZE \div 2)

\* SatellitePosition::new_random; angle is the random draw
SatellitePosition_new_random(sat, angle) ==
    [position |-> vec_add(from_polar(angle, orbit_radius(sat)), screen_centre),
     angle |-> angle]

\* SatellitePosition::update, for one tick interval
SatellitePosition_update(pos, sat) ==
    LET angle == (pos.angle + sat.angular_velocity) % FullTurn
    IN [position |-> vec_add(from_polar(angle, orbit_radius(sat)), screen_centre),
        angle |-> angle]

screen_position(pos) == pos.position

\* the square of SatellitePosition::distance_from_earth
distance_from_earth(pos) ==
    LET x == pos.position.x - SIZE \div 2
        y == pos.position.y - SIZE \div 2
    IN x * x + y * y

\* SatelliteEnergy::new_random; energy is the random draw rng.gen::<f32>() * 100.0.
\* prob_entering is <<100>>, the literal 100.0, until update_game stores
\* <<b, d, n>>, which stands for 1 - (b / d)^(1 / n).
SatelliteEnergy_new_random(id, s, energy) ==
    [id |-> id,
     in_game |-> FALSE,
     cost |-> s.comms_cost,
     gain |-> s.energy_gain,
     energy |-> energy,
     max_energy |-> s.max_energy,
     prob_entering |-> <<100>>]

\* satellite.rs:265-267: where 1 - (1 - (energy - cost) / (energy + gain))^(1 / n)
\* lies.  1 - (energy - cost) / (energy + gain) is (cost + gain) / (energy + gain),
\* here b / d.  d = 0 gives NaN or an infinity; b / d < 0 gives a value above 1
\* (n = 1) or NaN (powf of a negative base with a fractional exponent);
\* b / d > 1 gives a negative value.  All of these fail the range test.
prob_entering_class(energy, cost, gain, n) ==
    LET b == cost + gain
        d == energy + gain
    IN IF d = 0 THEN "invalid"
       ELSE IF b = 0 THEN "one"
       ELSE IF (b < 0) # (d < 0) THEN "invalid"
       ELSE IF b = d THEN "zero"
       ELSE IF (d > 0 /\ b < d) \/ (d < 0 /\ b > d) THEN "open"
       ELSE "invalid"

\* mutant: the early return leaves in_game as it was
update_game_keeps_flag(sat, size, draw) ==
    IF sat.energy < sat.cost \/ sat.energy < 0 THEN sat
    ELSE IF size < 2
    THEN [sat EXCEPT !.in_game = (sat.energy > sat.cost)]
    ELSE LET n == size - 1
             class == prob_entering_class(sat.energy, sat.cost, sat.gain, n)
         IN IF class = "invalid" THEN [sat EXCEPT !.in_game = FALSE]
            ELSE [sat EXCEPT
                    !.prob_entering = <<sat.cost + sat.gain, sat.energy + sat.gain, n>>,
                    !.in_game = (class = "one" \/ (class = "open" /\ draw))]

\* mutant: a single-member cluster enters the game when energy >= cost
update_game_single_ge(sat, size, draw) ==
    IF sat.energy < sat.cost \/ sat.energy < 0 THEN [sat EXCEPT !.in_game = FALSE]
    ELSE IF size < 2
    THEN [sat EXCEPT !.in_game = (sat.energy >= sat.cost)]
    ELSE LET n == size - 1
             class == prob_entering_class(sat.energy, sat.cost, sat.gain, n)
         IN IF class = "invalid" THEN [sat EXCEPT !.in_game = FALSE]
            ELSE [sat EXCEPT
                    !.prob_entering = <<sat.cost + sat.gain, sat.energy + sat.gain, n>>,
                    !.in_game = (class = "one" \/ (class = "open" /\ draw))]

\* mutant: the entering-probability is stored and sampled without the range test
update_game_no_range_test(sat, size, draw) ==
    IF sat.energy < sat.cost \/ sat.energy < 0 THEN [sat EXCEPT !.in_game = FALSE]
    ELSE IF size < 2
    THEN [sat EXCEPT !.in_game = (sat.energy > sat.cost)]
    ELSE LET n == size - 1
             class == prob_entering_class(sat.energy, sat.cost, sat.gain, n)
         IN [sat EXCEPT
                !.prob_entering = <<sat.cost + sat.gain, sat.energy + sat.gain, n>>,
                !.in_game = (class = "one" \/ (class # "zero" /\ draw))]

\* SatelliteEnergy::update_game; size is cluster.size(), draw is what
\* rng.gen_bool(p) gives when 0 < p < 1 (gen_bool(0.0) is false, gen_bool(1.0) true)
update_game(sat, size, draw) ==
    IF sat.energy < sat.cost \/ sat.energy < 0 THEN [sat EXCEPT !.in_game = FALSE]
    ELSE IF size < 2
    THEN [sat EXCEPT !.in_game = (sat.energy > sat.cost)]
    ELSE LET n == size - 1
             class == prob_entering_class(sat.energy, sat.cost, sat.gain, n)
         IN IF class = "invalid" THEN [sat EXCEPT !.in_game = FALSE]
            ELSE [sat EXCEPT
                    !.prob_entering = <<sat.cost + sat.gain, sat.energy + sat.gain, n>>,
                    !.in_game = (class = "one" \/ (class = "open" /\ draw))]

\* satellite.rs:302: the number of neighbors that are in the game
RECURSIVE neighbors_in_game(_, _)
neighbors_in_game(neighbors, k) ==
    IF k > Len(neighbors) THEN 0
    ELSE (IF neighbors[k].in_game THEN 1 ELSE 0) + neighbors_in_game(neighbors, k + 1)

\* mutant: an agent that has paid the cost leaves the game
update_leaves_game(sat, neighbors) ==
    IF sat.in_game
    THEN [sat EXCEPT !.energy = IF sat.energy - sat.cost < 0 THEN 0
                                 ELSE sat.energy - sat.cost,
                     !.in_game = FALSE]
    ELSE IF neighbors_in_game(neighbors, 1) = 0 THEN sat
    ELSE [sat EXCEPT !.energy = IF sat.energy + sat.gain > sat.max_energy
                                 THEN sat.max_energy
                                 ELSE sat.energy + sat.gain]

\* mutant: no return after the cost is paid, the recharge follows
update_no_return(sat, neighbors) ==
    LET paid == IF sat.in_game
                THEN [sat EXCEPT !.energy = IF sat.energy - sat.cost < 0 THEN 0
                                             ELSE sat.energy - sat.cost]
                ELSE sat
    IN IF neighbors_in_game(neighbors, 1) = 0 THEN paid
       ELSE [paid EXCEPT !.energy = IF paid.energy + paid.gain > paid.max_energy
                                     THEN paid.max_energy
                                     ELSE paid.energy + paid.gain]

\* SatelliteEnergy::update; neighbors is the list of the neighbors' SatelliteEnergy
update(sat, neighbors) ==
    IF sat.in_game
    THEN [sat EXCEPT !.energy = IF sat.energy - sat.cost < 0 THEN 0
                                 ELSE sat.energy - sat.cost]
    ELSE IF neighbors_in_game(neighbors, 1) = 0 THEN sat
    ELSE [sat EXCEPT !.energy = IF sat.energy + sat.gain > sat.max_energy
                                 THEN sat.max_energy
                                 ELSE sat.energy + sat.gain]

-----------------------------------------------------------------------------
(* packet.rs *)

\* the ttl PacketSource::next gives a new packet
INITIAL_TTL == 10

Hop(from, to, time) == [from |-> from, to |-> to, time |-> time]

\* Packet::new
Packet_new(id, source, ttl) == [id |-> id, source |-> source, ttl |-> ttl, path |-> <<>>]

\* mutant: every hop starts at the packet's source
add_hop_from_source(packet, node, time) ==
    [packet EXCEPT !.path = Append(@, Hop(packet.source, node, time))]

\* Packet::add_hop
add_hop(packet, node, time) ==
    LET last == IF packet.path = <<>> THEN packet.source
                ELSE packet.path[Len(packet.path)].to
    IN [packet EXCEPT !.path = Append(@, Hop(last, node, time))]

\* mutant: only the receivers of the hops are looked at
in_path_receivers_only(packet, node) ==
    \E k \in DOMAIN packet.path : packet.path[k].to = node

\* Packet::in_path: the id appears in the path, as the sender or the receiver of a hop
in_path(packet, node) ==
    \E k \in DOMAIN packet.path : packet.path[k].from = node \/ packet.path[k].to = node

\* Packet::ttl
ttl(packet) == packet.ttl

\* Packet::decrement_ttl; ttl is a usize, a result below 0 stands for its underflow
decrement_ttl(packet) == [packet EXCEPT !.ttl = @ - 1]

\* PacketSource::new
PacketSource_new(id) == [id |-> id, sequence_number |-> 0]

\* mutant: the sequence number is not counted up
PacketSource_next_no_increment(source) ==
    [source |-> source,
     packet |-> Packet_new(source.sequence_number, source.id, INITIAL_TTL)]

\* PacketSource::next.  Returns [source, packet].
PacketSource_next(source) ==
    LET sequence_number == source.sequence_number + 1
    IN [source |-> [source EXCEPT !.sequence_number = sequence_number],
        packet |-> Packet_new(sequence_number, source.id, INITIAL_TTL)]

-----------------------------------------------------------------------------
(* satellite.rs: SatelliteComms *)

\* SatelliteComms::new
SatelliteComms_new(id) == [packets |-> <<>>, source |-> PacketSource_new(id)]

\* mutant: a packet is accepted by an agent it has already visited
add_packet_no_loop_check(comms, packet, timestamp) ==
    IF ttl(packet) = 0 THEN comms
    ELSE [comms EXCEPT !.packets =
            Append(@, add_hop(decrement_ttl(packet), comms.source.id, timestamp))]

\* mutant: a packet whose ttl is 0 is accepted
add_packet_no_ttl_check(comms, packet, timestamp) ==
    IF in_path(packet, comms.source.id) THEN comms
    ELSE [comms EXCEPT !.packets =
            Append(@, add_hop(decrement_ttl(packet), comms.source.id, timestamp))]

\* mutant: a packet is rejected one hop early, when its ttl is 1
add_packet_ttl_le_one(comms, packet, timestamp) ==
    IF in_path(packet, comms.source.id) THEN comms
    ELSE IF ttl(packet) <= 1 THEN comms
    ELSE [comms EXCEPT !.packets =
            Append(@, add_hop(decrement_ttl(packet), comms.source.id, timestamp))]

\* mutant: the ttl of an accepted packet is not counted down
add_packet_no_decrement(comms, packet, timestamp) ==
    IF in_path(packet, comms.source.id) THEN comms
    ELSE IF ttl(packet) = 0 THEN comms
    ELSE [comms EXCEPT !.packets = Append(@, add_hop(packet, comms.source.id, timestamp))]

\* SatelliteComms::add_packet; timestamp is chrono::Local::now().timestamp()
add_packet(comms, packet, timestamp) ==
    IF in_path(packet, comms.source.id) THEN comms
    ELSE IF ttl(packet) = 0 THEN comms
    ELSE [comms EXCEPT !.packets =
            Append(@, add_hop(decrement_ttl(packet), comms.source.id, timestamp))]

\* satellite.rs:212-218: the new packet, if any, and then the packets of the
\* inbox are offered to one neighbor.  Returns [comms, offers].
RECURSIVE offer_all(_, _, _, _, _, _)
offer_all(all, to, outgoing, k, timestamp, offered) ==
    IF k > Len(outgoing) THEN [comms |-> all, offers |-> offered]
    ELSE LET after == add_packet(at(all, to), outgoing[k], timestamp)
         IN offer_all([all EXCEPT ![to + 1] = after], to, outgoing, k + 1, timestamp,
                      Append(offered, [to |-> to, packet |-> outgoing[k],
                                       before |-> at(all, to).packets,
                                       after |-> after.packets]))

\* satellite.rs:202-220: the loop over the neighbors.  A neighbor is [id, near]:
\* whose SatelliteComms it is, and whether the position paired with it is
\* within comms_distance.
RECURSIVE send_to_neighbors(_, _, _, _, _, _, _)
send_to_neighbors(all, id, neighbors, k, outgoing, timestamp, offered) ==
    IF k > Len(neighbors) THEN [comms |-> all, offers |-> offered]
    ELSE IF neighbors[k].id = id \/ ~neighbors[k].near
    THEN send_to_neighbors(all, id, neighbors, k + 1, outgoing, timestamp, offered)
    ELSE LET r == offer_all(all, neighbors[k].id, outgoing, 1, timestamp, offered)
         IN send_to_neighbors(r.comms, id, neighbors, k + 1, outgoing, timestamp, r.offers)

\* mutant: the inbox is not cleared at the end of update
SatelliteComms_update_no_clear(all, id, neighbors, originate, timestamp) ==
    LET self     == at(all, id)
        next     == PacketSource_next(self.source)
        packet   == IF originate THEN Some(next.packet) ELSE None
        source   == IF originate THEN next.source ELSE self.source
        outgoing == packet \o self.packets
        sent     == send_to_neighbors(all, id, neighbors, 1, outgoing, timestamp, <<>>)
    IN [comms  |-> [sent.comms EXCEPT ![id + 1] = [packets |-> self.packets, source |-> source]],
        offers |-> sent.offers,
        packet |-> packet]

\* SatelliteComms::update of agent id, on the vector that holds it and its
\* neighbors; originate is the draw rng.gen_bool(0.1).
\* Returns [comms, offers, packet].
SatelliteComms_update(all, id, neighbors, originate, timestamp) ==
    LET self     == at(all, id)
        next     == PacketSource_next(self.source)
        packet   == IF originate THEN Some(next.packet) ELSE None
        source   == IF originate THEN next.source ELSE self.source
        outgoing == packet \o self.packets
        sent     == send_to_neighbors(all, id, neighbors, 1, outgoing, timestamp, <<>>)
    IN [comms  |-> [sent.comms EXCEPT ![id + 1] = [packets |-> <<>>, source |-> source]],
        offers |-> sent.offers,
        packet |-> packet]

-----------------------------------------------------------------------------
(* cluster.rs *)

\* Cluster::new; color is the random draw
Cluster_new(head, color) ==
    [head |-> head, members |-> <<head>>, size |-> 1, color |-> color]

\* mutant: the size is not counted up
add_member_no_size(cluster, node) ==
    [cluster EXCEPT !.members = Append(@, node)]

\* Cluster::add_member
add_member(cluster, node) ==
    [cluster EXCEPT !.members = Append(@, node), !.size = @ + 1]

set_color(cluster, color) == [cluster EXCEPT !.color = color]

\* ClusterMap::new
ClusterMap_new == <<>>

\* ClusterMap::insert
ClusterMap_insert(map, cluster) ==
    [h \in DOMAIN map \cup {cluster.head} |->
        IF h = cluster.head THEN cluster ELSE map[h]]

-----------------------------------------------------------------------------
(* simulation.rs: Simulation::update(Msg::CommsTick), step by step *)

\* lines 152-161: the quadtree of the tick, built from the positions in id order
RECURSIVE build_qtree(_, _, _)
build_qtree(tree, positions, id) ==
    IF id >= Len(positions) THEN tree
    ELSE LET position == screen_position(at(positions, id))
         IN build_qtree(insert(tree, <<>>, Point(position.x, position.y), id).tree,
                        positions, id + 1)

world_boundary == Box2d(Point(0, SIZE), Point(SIZE, 0))

\* mutant: an energy equal to the threshold is enough
RECURSIVE cluster_head_candidates_ge(_, _, _)
cluster_head_candidates_ge(energies, threshold, id) ==
    IF id >= Len(energies) THEN <<>>
    ELSE (IF at(energies, id).energy >= threshold THEN <<id>> ELSE <<>>)
         \o cluster_head_candidates_ge(energies, threshold, id + 1)

\* lines 165-176: the ids whose energy exceeds the threshold, ascending
RECURSIVE cluster_head_candidates(_, _, _)
cluster_head_candidates(energies, threshold, id) ==
    IF id >= Len(energies) THEN <<>>
    ELSE (IF at(energies, id).energy > threshold THEN <<id>> ELSE <<>>)
         \o cluster_head_candidates(energies, threshold, id + 1)

\* mutant: the scan stops after the first accepted head
is_cluster_head_first_only(id, heads, positions, cluster_distance) ==
    LET position == screen_position(at(positions, id))
    IN \A k \in DOMAIN heads :
          LET head_pos == screen_position(at(positions, heads[k]))
              distance == magnitude(vec_sub(position, head_pos))
          IN k = 1 => ~(distance < squared(cluster_distance))

\* lines 183-194: no head accepted so far is nearer than cluster_distance
is_cluster_head(id, heads, positions, cluster_distance) ==
    LET position == screen_position(at(positions, id))
    IN \A k \in DOMAIN heads :
          LET head_pos == screen_position(at(positions, heads[k]))
              distance == magnitude(vec_sub(position, head_pos))
          IN ~(distance < squared(cluster_distance))

\* mutant: the scan ends at the first candidate that is turned down
RECURSIVE elect_heads_stop_at_rejected(_, _, _, _, _)
elect_heads_stop_at_rejected(candidates, k, heads, positions, cluster_distance) ==
    IF k > Len(candidates) THEN heads
    ELSE IF is_cluster_head(candidates[k], heads, positions, cluster_distance)
         THEN elect_heads_stop_at_rejected(candidates, k + 1,
                  Append(heads, candidates[k]), positions, cluster_distance)
         ELSE heads

\* lines 180-199: candidates are accepted greedily, in order
RECURSIVE elect_heads(_, _, _, _, _)
elect_heads(candidates, k, heads, positions, cluster_distance) ==
    IF k > Len(candidates) THEN heads
    ELSE elect_heads(candidates, k + 1,
            IF is_cluster_head(candidates[k], heads, positions, cluster_distance)
            THEN Append(heads, candidates[k]) ELSE heads,
            positions, cluster_distance)

\* lines 205-214: one cluster per head, coloured from the previous tick's cluster
\* of the same head if there is one (and then the head takes that colour), else
\* from the head's hue.  Returns [clusters, props].

\* mutant: the clusters of the tick are added to the previous map, whose other
\* entries stay
RECURSIVE create_clusters_keep_prev(_, _, _, _, _, _)
create_clusters_keep_prev(heads, k, clusters, props, prev_map, rnd) ==
    IF k > Len(heads)
    THEN [clusters |-> [h \in DOMAIN prev_map \cup DOMAIN clusters |->
                           IF h \in DOMAIN clusters THEN clusters[h] ELSE prev_map[h]],
          props |-> props]
    ELSE LET ch_id == heads[k]
             cluster == Cluster_new(ch_id, rnd)
         IN IF ch_id \in DOMAIN prev_map
            THEN create_clusters_keep_prev(heads, k + 1,
                    ClusterMap_insert(clusters, set_color(cluster, prev_map[ch_id].color)),
                    [props EXCEPT ![ch_id + 1].hue = prev_map[ch_id].color],
                    prev_map, rnd)
            ELSE create_clusters_keep_prev(heads, k + 1,
                    ClusterMap_insert(clusters, set_color(cluster, at(props, ch_id).hue)),
                    props, prev_map, rnd)

\* mutant: a head without a previous cluster keeps the colour Cluster::new drew
RECURSIVE create_clusters_random_color(_, _, _, _, _, _)
create_clusters_random_color(heads, k, clusters, props, prev_map, rnd) ==
    IF k > Len(heads) THEN [clusters |-> clusters, props |-> props]
    ELSE LET ch_id == heads[k]
             cluster == Cluster_new(ch_id, rnd)
         IN IF ch_id \in DOMAIN prev_map
            THEN create_clusters_random_color(heads, k + 1,
                    ClusterMap_insert(clusters, set_color(cluster, prev_map[ch_id].color)),
                    [props EXCEPT ![ch_id + 1].hue = prev_map[ch_id].color],
                    prev_map, rnd)
            ELSE create_clusters_random_color(heads, k + 1,
                    ClusterMap_insert(clusters, cluster),
                    props, prev_map, rnd)

RECURSIVE create_clusters(_, _, _, _, _, _)
create_clusters(heads, k, clusters, props, prev_map, rnd) ==
    IF k > Len(heads) THEN [clusters |-> clusters, props |-> props]
    ELSE LET ch_id == heads[k]
             cluster == Cluster_new(ch_id, rnd)
         IN IF ch_id \in DOMAIN prev_map
            THEN create_clusters(heads, k + 1,
                    ClusterMap_insert(clusters, set_color(cluster, prev_map[ch_id].color)),
                    [props EXCEPT ![ch_id + 1].hue = prev_map[ch_id].color],
                    prev_map, rnd)
            ELSE create_clusters(heads, k + 1,
                    ClusterMap_insert(clusters, set_color(cluster, at(props, ch_id).hue)),
                    props, prev_map, rnd)

\* mutant: a head at the same distance replaces the one found before
RECURSIVE nearest_last_wins(_, _, _, _, _)
nearest_last_wins(id, heads, k, positions, best) ==
    IF k > Len(heads) THEN best
    ELSE LET position == screen_position(at(positions, id))
             head_pos == screen_position(at(positions, heads[k]))
             distance == magnitude(vec_sub(position, head_pos))
         IN nearest_last_wins(id, heads, k + 1, positions,
                IF distance <= best.nearest_distance
                THEN [nearest_distance |-> distance, nearest_head |-> Some(heads[k])]
                ELSE best)

\* lines 225-236: the head strictly nearer than everything before it, starting
\* from the distance to the earth.  Returns [nearest_distance, nearest_head].
RECURSIVE nearest(_, _, _, _, _)
nearest(id, heads, k, positions, best) ==
    IF k > Len(heads) THEN best
    ELSE LET position == screen_position(at(positions, id))
             head_pos == screen_position(at(positions, heads[k]))
             distance == magnitude(vec_sub(position, head_pos))
         IN nearest(id, heads, k + 1, positions,
                IF distance < best.nearest_distance
                THEN [nearest_distance |-> distance, nearest_head |-> Some(heads[k])]
                ELSE best)

\* mutant: the search starts from the first head instead of the earth
nearest_head_any(id, heads, positions) ==
    IF heads = <<>> THEN None
    ELSE nearest(id, heads, 1, positions,
            [nearest_distance |->
                magnitude(vec_sub(screen_position(at(positions, id)),
                                  screen_position(at(positions, heads[1])))) + 1,
             nearest_head |-> None]).nearest_head

nearest_head(id, heads, positions) ==
    nearest(id, heads, 1, positions,
            [nearest_distance |-> distance_from_earth(at(positions, id)),
             nearest_head |-> None]).nearest_head

\* mutant: the satellite is added to every head that improves on the last
RECURSIVE join_each_nearer(_, _, _, _, _, _)
join_each_nearer(id, heads, k, positions, best, clusters) ==
    IF k > Len(heads) THEN clusters
    ELSE LET position == screen_position(at(positions, id))
             head_pos == screen_position(at(positions, heads[k]))
             distance == magnitude(vec_sub(position, head_pos))
         IN IF distance < best
            THEN join_each_nearer(id, heads, k + 1, positions, distance,
                    [clusters EXCEPT ![heads[k]] = add_member(@, id)])
            ELSE join_each_nearer(id, heads, k + 1, positions, best, clusters)

RECURSIVE assign_members_eager(_, _, _, _, _)
assign_members_eager(props, i, heads, positions, clusters) ==
    IF i > Len(props) THEN clusters
    ELSE LET id == props[i].id
         IN IF id \in Range(heads)
            THEN assign_members_eager(props, i + 1, heads, positions, clusters)
            ELSE assign_members_eager(props, i + 1, heads, positions,
                    join_each_nearer(id, heads, 1, positions,
                        distance_from_earth(at(positions, id)), clusters))

\* lines 216-242: every satellite that is not a head joins its nearest head
RECURSIVE assign_members(_, _, _, _, _)
assign_members(props, i, heads, positions, clusters) ==
    IF i > Len(props) THEN clusters
    ELSE LET id == props[i].id
             head == nearest_head(id, heads, positions)
         IN IF id \in Range(heads) \/ head = None
            THEN assign_members(props, i + 1, heads, positions, clusters)
            ELSE assign_members(props, i + 1, heads, positions,
                    [clusters EXCEPT ![head[1]] = add_member(@, id)])

RECURSIVE sum_hues(_, _, _)
sum_hues(members, k, props) ==
    IF k > Len(members) THEN 0
    ELSE at(props, members[k]).hue + sum_hues(members, k + 1, props)

\* mutant: the hues of the followers only are averaged
mix_color_followers_only(cluster, props) ==
    LET member_color == sum_hues(Tail(cluster.members), 1, props)
                            \div Len(Tail(cluster.members))
        head_color == cluster.color
    IN ((head_color + member_color) \div 2) % 360

\* lines 251-255
mix_color(cluster, props) ==
    LET member_color == sum_hues(cluster.members, 1, props) \div Len(cluster.members)
        head_color == cluster.color
    IN ((head_color + member_color) \div 2) % 360

\* lines 245-263: clusters of two or more take the mixed colour, and so do
\* their head and members.  heads lists the keys of clusters; the clusters share
\* no satellite, so the order of the iteration is immaterial.
RECURSIVE blend_colors(_, _, _, _)
blend_colors(heads, k, clusters, props) ==
    IF k > Len(heads) THEN [clusters |-> clusters, props |-> props]
    ELSE LET cluster == clusters[heads[k]]
         IN IF cluster.size < 2
            THEN blend_colors(heads, k + 1, clusters, props)
            ELSE LET color == mix_color(cluster, props)
                     touched == {cluster.head} \cup Range(cluster.members)
                 IN blend_colors(heads, k + 1,
                        [clusters EXCEPT ![heads[k]] = set_color(@, color)],
                        [i \in DOMAIN props |->
                            IF props[i].id \in touched
                            THEN [props[i] EXCEPT !.hue = color] ELSE props[i]])

-----------------------------------------------------------------------------
(* simulation.rs: the component *)

\* the random draws of new_random, per satellite: <<orbit, angle>> and energy
Placements == { <<2, 1>>, <<2, 11>>, <<3, 0>>, <<3, 1>> }

Energies == {50, 51}

HueDraws == {0}

\* the values of rng.gen::<f32>() * 360.0 in Cluster::new
ColorDraws == {200}

SettingsDrawn ==
    { [boids |-> n, energy_threshold |-> 50, cluster_distance |-> 6,
       comms_cost |-> 2, energy_gain |-> 3, max_energy |-> 100] : n \in 1..MaxBoids }

\* Simulation::create
Create ==
    /\ settings \in SettingsDrawn
    /\ paused = FALSE
    /\ should_render = TRUE
    /\ \E place \in [1..settings.boids -> Placements],
          hues \in [1..settings.boids -> HueDraws] :
          /\ entity_props =
                [i \in 1..settings.boids |->
                    SatelliteProperties_new_random(i - 1, place[i][1], hues[i])]
          /\ entity_positions =
                [i \in 1..settings.boids |->
                    SatellitePosition_new_random(
                        SatelliteProperties_new_random(i - 1, place[i][1], hues[i]),
                        place[i][2])]
    /\ \E draws \in [1..settings.boids -> Energies] :
          entity_energy =
             [i \in 1..settings.boids |->
                 SatelliteEnergy_new_random(i - 1, settings, draws[i])]
    /\ entity_comms = [i \in 1..settings.boids |-> SatelliteComms_new(i - 1)]
    /\ cluster_map = ClusterMap_new
    /\ selected_satellite_id = None
    /\ election = None

\* no SatelliteEnergy is under test
GameIdle ==
    /\ game = None
    /\ game_call = None
    /\ game_round = None

\* no packet has been originated
CommsIdle ==
    /\ entity_comms = <<>>
    /\ offers = <<>>
    /\ originated = <<>>
    /\ relayed = <<>>
    /\ age = <<>>

Init ==
    /\ MeanIdle
    /\ Create
    /\ qtree = None
    /\ calls = <<>>
    /\ returned = [op |-> "none", arg |-> world_boundary, result |-> TRUE]
    /\ GameIdle
    /\ offers = <<>>
    /\ originated = <<>>
    /\ relayed = <<>>
    /\ age = <<>>

\* mutant: the positions move whether or not the simulation is paused
Tick_ignores_pause ==
    /\ UNCHANGED mean_call
    /\ entity_positions' =
          [i \in DOMAIN entity_positions |->
              SatellitePosition_update(entity_positions[i], entity_props[i])]
    /\ should_render' = TRUE
    /\ UNCHANGED <<qtree, calls, returned, settings, paused, entity_props,
                   entity_energy, cluster_map, selected_satellite_id, election>>
    /\ UNCHANGED gameVars
    /\ UNCHANGED commsVars

\* Simulation::update(Msg::Tick)
Tick ==
    /\ UNCHANGED mean_call
    /\ IF paused
       THEN UNCHANGED entity_positions
       ELSE entity_positions' =
                [i \in DOMAIN entity_positions |->
                    SatellitePosition_update(entity_positions[i], entity_props[i])]
    /\ should_render' = ~paused
    /\ UNCHANGED <<qtree, calls, returned, settings, paused, entity_props,
                   entity_energy, cluster_map, selected_satellite_id, election>>
    /\ UNCHANGED gameVars
    /\ UNCHANGED commsVars

\* Simulation::update(Msg::CommsTick)
CommsTick ==
    /\ UNCHANGED mean_call
    /\ IF paused
       THEN UNCHANGED <<qtree, entity_props, cluster_map, election>>
       ELSE \E rnd \in ColorDraws :
            LET tree       == build_qtree(QuadTree_new(world_boundary, 4),
                                          entity_positions, 0)
                candidates == cluster_head_candidates(entity_energy,
                                          settings.energy_threshold, 0)
                heads      == elect_heads(candidates, 1, <<>>, entity_positions,
                                          settings.cluster_distance)
                created    == create_clusters(heads, 1, ClusterMap_new, entity_props,
                                          cluster_map, rnd)
                assigned   == assign_members(created.props, 1, heads,
                                          entity_positions, created.clusters)
                blended    == blend_colors(heads, 1, assigned, created.props)
            IN /\ entity_props' = blended.props
               /\ cluster_map' = blended.clusters
               /\ qtree' = Some(tree)
               /\ election' = Some([cluster_head_candidates |-> candidates,
                                    cluster_heads |-> heads,
                                    positions |-> entity_positions,
                                    energies |-> entity_energy,
                                    prev_heads |-> DOMAIN cluster_map,
                                    started |-> [h \in DOMAIN created.clusters |->
                                                    created.clusters[h].color]])
    /\ should_render' = ~paused
    /\ UNCHANGED <<calls, returned, settings, paused, entity_positions, entity_energy,
                   selected_satellite_id>>
    /\ UNCHANGED gameVars
    /\ UNCHANGED commsVars

\* main.rs, App::update(Msg::TogglePause): the paused property flips; the
\* settings and the generation are the same, so Simulation::changed resets nothing
\* and returns false
TogglePause ==
    /\ UNCHANGED mean_call
    /\ paused' = ~paused
    /\ should_render' = FALSE
    /\ UNCHANGED <<qtree, calls, returned, settings, entity_props, entity_positions,
                   entity_energy, cluster_map, selected_satellite_id, election>>
    /\ UNCHANGED gameVars
    /\ UNCHANGED commsVars

Next ==
    \/ Tick
    \/ CommsTick

Spec == Init /\ [][Next]_vars

-----------------------------------------------------------------------------
(* The quadtree under test: a fresh QuadTree::new(boundary, capacity), then  *)
(* insert and query_range calls.  Values are the call numbers, as in the     *)
(* comms tick, which inserts (position of agent id, id) for id = 0, 1, ...   *)

QTRoot == Box2d(Point(0, QTSize), Point(QTSize, 0))

\* points offered to insert: corners, edges, the centre, and two outside the root
QTPoints ==
    { Point(0, 0), Point(1, 1), Point(QTSize, QTSize), Point(0, QTSize),
      Point(1, 0), Point(QTSize, 1),
      Point(QTSize + 1, 1), Point(1, 0 - 1) }

\* ranges offered to query_range: the root boundary, the south-west part, the
\* centre point, the north-east part, a box touching the root at one corner, a
\* box apart from the root, a box around the root, the bottom edge
QTRanges ==
    { QTRoot,
      Box2d(Point(0, 1), Point(1, 0)),
      Box2d(Point(1, 1), Point(1, 1)),
      Box2d(Point(1, QTSize), Point(QTSize, 1)),
      Box2d(Point(0 - 1, 0), Point(0, 0 - 1)),
      Box2d(Point(QTSize + 1, 0 - 1), Point(QTSize + 1, 0 - 1)),
      Box2d(Point(0 - 1, QTSize + 1), Point(QTSize + 1, 0 - 1)),
      Box2d(Point(1, 0), Point(QTSize, 0)) }

SimIdle ==
    /\ settings = [boids |-> 0, energy_threshold |-> 0, cluster_distance |-> 0,
                   comms_cost |-> 0, energy_gain |-> 0, max_energy |-> 0]
    /\ paused = FALSE
    /\ should_render = FALSE
    /\ entity_props = <<>>
    /\ entity_positions = <<>>
    /\ entity_energy = <<>>
    /\ cluster_map = <<>>
    /\ selected_satellite_id = None
    /\ election = None

InitQuadTree ==
    /\ MeanIdle
    /\ \E capacity \in 1..MaxCapacity : qtree = Some(QuadTree_new(QTRoot, capacity))
    /\ calls = <<>>
    /\ returned = [op |-> "new", arg |-> QTRoot, result |-> TRUE]
    /\ SimIdle
    /\ GameIdle
    /\ CommsIdle

Insert(point) ==
    /\ UNCHANGED mean_call
    /\ Len(calls) < MaxInserts
    /\ LET value == Len(calls)
           r     == insert(qtree[1], <<>>, point, value)
       IN /\ qtree' = Some(r.tree)
          /\ calls' = Append(calls, [point |-> point, value |-> value, ok |-> r.ok])
          /\ returned' = [op |-> "insert", arg |-> point, result |-> r.ok]
    /\ UNCHANGED simVars
    /\ UNCHANGED gameVars
    /\ UNCHANGED commsVars

QueryRange(range) ==
    /\ UNCHANGED mean_call
    /\ returned' = [op |-> "query_range", arg |-> range,
                    result |-> query_range(qtree[1], <<>>, range)]
    /\ UNCHANGED <<qtree, calls>>
    /\ UNCHANGED simVars
    /\ UNCHANGED gameVars
    /\ UNCHANGED commsVars

NextQuadTree ==
    \/ \E point \in QTPoints : Insert(point)
    \/ \E range \in QTRanges : QueryRange(range)

SpecQuadTree == InitQuadTree /\ [][NextQuadTree]_vars

-----------------------------------------------------------------------------
(* The SatelliteEnergy under test: SatelliteEnergy::new_random(id, settings),  *)
(* then update_game and update calls in any order.  update_game reads the     *)
(* cluster's size only and update reads the neighbors' in_game flags only, so *)
(* these are the inputs.                                                      *)

\* no quadtree is under test
QuadTreeIdle ==
    /\ qtree = None
    /\ calls = <<>>
    /\ returned = [op |-> "none", arg |-> world_boundary, result |-> TRUE]

\* the settings the energy game reads
GameSettings ==
    { [boids |-> 1, energy_threshold |-> 50, cluster_distance |-> 6,
       comms_cost |-> c, energy_gain |-> g, max_energy |-> m] :
         c \in {0, 20, 40}, g \in {0, 30}, m \in {60, 100} }

\* the draws of rng.gen::<f32>() * 100.0, which lie in [0, 100)
EnergyDraws == {0, 20, 50, 99}

\* the neighbor lists: what update reads of a neighbor is its in_game flag
NeighborLists ==
    UNION { [1..n -> {[in_game |-> b] : b \in BOOLEAN}] : n \in 0..MaxNeighbors }

InitEnergy ==
    /\ MeanIdle
    /\ \E s \in GameSettings, e \in EnergyDraws :
          /\ game = Some(SatelliteEnergy_new_random(0, s, e))
          /\ game_call = Some([op |-> "new_random", settings |-> s])
    /\ game_round = None
    /\ QuadTreeIdle
    /\ SimIdle
    /\ CommsIdle

UpdateGame(size, draw) ==
    /\ UNCHANGED mean_call
    /\ game' = Some(update_game(game[1], size, draw))
    /\ game_call' = Some([op |-> "update_game", before |-> game[1],
                          size |-> size, draw |-> draw])
    /\ UNCHANGED game_round
    /\ UNCHANGED commsVars
    /\ UNCHANGED <<qtree, calls, returned>>
    /\ UNCHANGED simVars

Update(neighbors) ==
    /\ UNCHANGED mean_call
    /\ game' = Some(update(game[1], neighbors))
    /\ game_call' = Some([op |-> "update", before |-> game[1],
                          neighbors |-> neighbors])
    /\ UNCHANGED game_round
    /\ UNCHANGED commsVars
    /\ UNCHANGED <<qtree, calls, returned>>
    /\ UNCHANGED simVars

NextEnergy ==
    \/ \E size \in 1..MaxClusterSize, draw \in BOOLEAN : UpdateGame(size, draw)
    \/ \E neighbors \in NeighborLists : Update(neighbors)

SpecEnergy == InitEnergy /\ [][NextEnergy]_vars

-----------------------------------------------------------------------------
(* The relay under test: SatelliteComms::new for every agent, then            *)
(* SatelliteComms::update calls in any order.  What update reads of the       *)
(* positions is whether a neighbor is within comms_distance, so the neighbor  *)
(* list with that answer is the input.  The agents form a chain: the          *)
(* neighbors of an agent are taken among itself and the agents next to it.    *)

\* the agents whose draw rng.gen_bool(0.1) comes up
Originators == {0, 1}

\* the values of chrono::Local::now().timestamp()
Timestamps == {0}

\* the agent before and the agent after in the chain
Adjacent(id) == {j \in 0..(CommsNodes - 1) : j = id - 1 \/ j = id + 1}

Neighbor(id, near) == [id |-> id, near |-> near]

\* the neighbor lists given to update: none, one adjacent agent, two adjacent
\* agents in either order, one of them possibly out of reach, and the agent
\* itself before an adjacent agent
NeighborChoices(id) ==
    {<<>>}
    \cup {<<Neighbor(j, TRUE)>> : j \in Adjacent(id)}
    \cup {<<Neighbor(c[1], b), Neighbor(c[2], TRUE)>> :
             c \in {d \in Adjacent(id) \X Adjacent(id) : d[1] # d[2]}, b \in BOOLEAN}
    \cup {<<Neighbor(id, TRUE), Neighbor(j, TRUE)>> : j \in Adjacent(id)}

InitComms ==
    /\ MeanIdle
    /\ entity_comms = [i \in 1..CommsNodes |-> SatelliteComms_new(i - 1)]
    /\ offers = <<>>
    /\ originated = <<>>
    /\ relayed = <<>>
    /\ age = <<>>
    /\ QuadTreeIdle
    /\ SimIdle
    /\ GameIdle

\* An update of an agent that holds no packet and originates none offers
\* nothing and changes nothing; these calls are left out.
CommsUpdate(id, neighbors, originate) ==
    /\ UNCHANGED mean_call
    /\ originate => (id \in Originators /\ Len(originated) < MaxPackets)
    /\ originate \/ at(entity_comms, id).packets # <<>>
    /\ \E timestamp \in Timestamps :
          LET r == SatelliteComms_update(entity_comms, id, neighbors, originate, timestamp)
          IN /\ entity_comms' = r.comms
             /\ offers' = r.offers
             /\ originated' = originated \o
                    [k \in DOMAIN r.packet |-> [by |-> id, packet |-> r.packet[k]]]
             /\ relayed' = <<id>>
    /\ UNCHANGED age
    /\ UNCHANGED <<qtree, calls, returned>>
    /\ UNCHANGED simVars
    /\ UNCHANGED gameVars

NextComms ==
    \E id \in 0..(CommsNodes - 1) :
        \E neighbors \in NeighborChoices(id), originate \in BOOLEAN :
            CommsUpdate(id, neighbors, originate)

SpecComms == InitComms /\ [][NextComms]_vars

-----------------------------------------------------------------------------
(* The relay tick (src/src/simulation.rs, Msg::CommsTick): the quadtree is     *)
(* rebuilt and every agent, in ascending id order, runs SatelliteComms::update *)
(* on the neighbours the quadtree finds around it.                             *)

\* simulation.rs:175-185: the ids query_range finds in the box around agent id,
\* in the order it returns them, without id itself
neighbor_ids(tree, props, positions, id) ==
    LET visible_range == orbit_radius(at(props, id))
        position      == screen_position(at(positions, id))
        found == query_range(tree, <<>>,
                    Box2d(Point(position.x - visible_range, position.y + visible_range),
                          Point(position.x + visible_range, position.y - visible_range)))
    IN SelectSeq([k \in DOMAIN found |-> found[k].value], LAMBDA v : v # id)

\* simulation.rs:193-214: other.iter_mut().chain(first), the agents after id and
\* then the agents before id, filtered by neighbor_ids.contains
neigh_comms(n, id, ids) ==
    SelectSeq([k \in 1..(n - 1) |-> (id + k) % n], LAMBDA j : j \in Range(ids))

\* satellite.rs:199-211: neigh_comms zipped with neigh_pos, the positions in the
\* order of neighbor_ids; near is distance < comms_distance for the zipped pair
zip_neighbors(props, positions, id, ids, comms_ids) ==
    [k \in 1..(IF Len(ids) <= Len(comms_ids) THEN Len(ids) ELSE Len(comms_ids)) |->
        Neighbor(comms_ids[k],
                 magnitude(vec_sub(at(positions, id).position,
                                   at(positions, ids[k]).position))
                     < squared(orbit_radius(at(props, id))))]

\* simulation.rs:173-224: the loop over the agents; origin is the set of agents
\* whose rng.gen_bool(0.1) is true.  Returns [comms, offers, originated, relayed].
RECURSIVE relay(_, _, _, _, _, _, _, _)
relay(all, id, tree, props, positions, origin, timestamp, done) ==
    IF id >= Len(props)
    THEN [comms |-> all, offers |-> done.offers, originated |-> done.originated,
          relayed |-> done.relayed]
    ELSE LET ids       == neighbor_ids(tree, props, positions, id)
             comms_ids == neigh_comms(Len(all), id, ids)
             neighbors == zip_neighbors(props, positions, id, ids, comms_ids)
             r == SatelliteComms_update(all, id, neighbors, id \in origin, timestamp)
         IN relay(r.comms, id + 1, tree, props, positions, origin, timestamp,
                  [offers     |-> done.offers \o r.offers,
                   originated |-> done.originated \o
                       [k \in DOMAIN r.packet |-> [by |-> id, packet |-> r.packet[k]]],
                   relayed    |-> Append(done.relayed, id)])

\* Simulation::create of src/src/simulation.rs; the energy draw is not read by
\* the relay
InitRelay ==
    /\ MeanIdle
    /\ settings \in SettingsDrawn
    /\ paused = FALSE
    /\ should_render = TRUE
    /\ \E place \in [1..settings.boids -> Placements] :
          /\ entity_props =
                [i \in 1..settings.boids |->
                    SatelliteProperties_new_random(i - 1, place[i][1], 0)]
          /\ entity_positions =
                [i \in 1..settings.boids |->
                    SatellitePosition_new_random(
                        SatelliteProperties_new_random(i - 1, place[i][1], 0),
                        place[i][2])]
    /\ entity_energy =
          [i \in 1..settings.boids |-> SatelliteEnergy_new_random(i - 1, settings, 50)]
    /\ entity_comms = [i \in 1..settings.boids |-> SatelliteComms_new(i - 1)]
    /\ cluster_map = ClusterMap_new
    /\ selected_satellite_id = None
    /\ election = None
    /\ offers = <<>>
    /\ originated = <<>>
    /\ relayed = <<>>
    /\ age = <<>>
    /\ QuadTreeIdle
    /\ GameIdle

\* Simulation::update(Msg::CommsTick) of src/src/simulation.rs
RelayTick(origin) ==
    /\ UNCHANGED <<mean_call, age>>
    /\ Len(originated) + Cardinality(origin) <= MaxPackets
    /\ IF paused
       THEN UNCHANGED <<qtree, entity_comms, offers, originated, relayed>>
       ELSE \E timestamp \in Timestamps :
            LET tree == build_qtree(QuadTree_new(world_boundary, 4), entity_positions, 0)
                r    == relay(entity_comms, 0, tree, entity_props, entity_positions,
                              origin, timestamp,
                              [offers |-> <<>>, originated |-> <<>>, relayed |-> <<>>])
            IN /\ entity_comms' = r.comms
               /\ offers' = r.offers
               /\ originated' = originated \o r.originated
               /\ relayed' = r.relayed
               /\ qtree' = Some(tree)
    /\ should_render' = ~paused
    /\ UNCHANGED <<calls, returned, settings, paused, entity_props, entity_positions,
                   entity_energy, cluster_map, selected_satellite_id, election>>
    /\ UNCHANGED gameVars

NextRelay ==
    \/ Tick
    \/ \E origin \in SUBSET (Originators \cap Ids(entity_comms)) : RelayTick(origin)

SpecRelay == InitRelay /\ [][NextRelay]_vars

-----------------------------------------------------------------------------
(* The relay tick over a chain of agents.  What the loop reads of the         *)
(* quadtree and the positions is the neighbor list of each agent; here every  *)
(* agent is in reach of the agent before it and the agent after it, and of    *)
(* no other, so that a packet can use its whole hop budget.                   *)

\* the agents whose rng.gen_bool(0.1) may come up: the two ends of the chain
ChainOriginators == {0, CommsNodes - 1}

\* simulation.rs:193-214 on the chain: the agent after id, then the agent
\* before id, each within comms_distance
chain_neighbors(n, id) ==
    LET ids == neigh_comms(n, id, SelectSeq(<<id - 1, id + 1>>, LAMBDA j : j \in 0..(n - 1)))
    IN [k \in DOMAIN ids |-> Neighbor(ids[k], TRUE)]

\* simulation.rs:173-224: the loop over the agents, in ascending id order
RECURSIVE relay_chain(_, _, _, _, _)
relay_chain(all, id, origin, timestamp, done) ==
    IF id >= Len(all)
    THEN [comms |-> all, offers |-> done.offers, originated |-> done.originated,
          relayed |-> done.relayed]
    ELSE LET r == SatelliteComms_update(all, id, chain_neighbors(Len(all), id),
                                        id \in origin, timestamp)
         IN relay_chain(r.comms, id + 1, origin, timestamp,
                  [offers     |-> done.offers \o r.offers,
                   originated |-> done.originated \o
                       [k \in DOMAIN r.packet |-> [by |-> id, packet |-> r.packet[k]]],
                   relayed    |-> Append(done.relayed, id)])

\* Simulation::create of src/src/simulation.rs: the SatelliteComms of the agents
InitLifetime ==
    /\ MeanIdle
    /\ entity_comms = [i \in 1..CommsNodes |-> SatelliteComms_new(i - 1)]
    /\ offers = <<>>
    /\ originated = <<>>
    /\ relayed = <<>>
    /\ age = <<>>
    /\ QuadTreeIdle
    /\ SimIdle
    /\ GameIdle

\* Simulation::update(Msg::CommsTick) of src/src/simulation.rs, not paused; a
\* packet's age stops counting one tick past its hop budget
LifetimeTick(origin) ==
    /\ Len(originated) + Cardinality(origin) <= MaxPackets
    /\ \E timestamp \in Timestamps :
          LET r == relay_chain(entity_comms, 0, origin, timestamp,
                               [offers |-> <<>>, originated |-> <<>>, relayed |-> <<>>])
          IN /\ entity_comms' = r.comms
             /\ offers' = r.offers
             /\ originated' = originated \o r.originated
             /\ relayed' = r.relayed
             /\ age' = [k \in DOMAIN age |->
                           IF age[k] > INITIAL_TTL THEN age[k] ELSE age[k] + 1]
                       \o [k \in DOMAIN r.originated |-> 0]
    /\ UNCHANGED <<qtree, calls, returned, mean_call>>
    /\ UNCHANGED simVars
    /\ UNCHANGED gameVars

NextLifetime == \E origin \in SUBSET ChainOriginators : LifetimeTick(origin)

SpecLifetime == InitLifetime /\ [][NextLifetime]_vars

-----------------------------------------------------------------------------
(* The component with clicks and resets (src/simulation/src/simulation.rs):   *)
(* create, Msg::Tick, Msg::CommsTick, Msg::ClickedSat and changed.            *)

\* mutant: the SatelliteComms of the agents are numbered from 1
new_entities_comms_from_one(s, place, hues, draws) ==
    [props     |-> [i \in 1..s.boids |->
                       SatelliteProperties_new_random(i - 1, place[i][1], hues[i])],
     positions |-> [i \in 1..s.boids |->
                       SatellitePosition_new_random(
                           SatelliteProperties_new_random(i - 1, place[i][1], hues[i]),
                           place[i][2])],
     energy    |-> [i \in 1..s.boids |-> SatelliteEnergy_new_random(i - 1, s, draws[i])],
     comms     |-> [i \in 1..s.boids |-> SatelliteComms_new(i)]]

\* simulation.rs:62-72 and 352-362: the loop `for id in 0..settings.boids` that
\* pushes one entry to each of the four vectors; place, hues and draws are the
\* random draws of the agents
new_entities(s, place, hues, draws) ==
    [props     |-> [i \in 1..s.boids |->
                       SatelliteProperties_new_random(i - 1, place[i][1], hues[i])],
     positions |-> [i \in 1..s.boids |->
                       SatellitePosition_new_random(
                           SatelliteProperties_new_random(i - 1, place[i][1], hues[i]),
                           place[i][2])],
     energy    |-> [i \in 1..s.boids |-> SatelliteEnergy_new_random(i - 1, s, draws[i])],
     comms     |-> [i \in 1..s.boids |-> SatelliteComms_new(i - 1)]]

\* the draws of the agents in the runs with clicks and resets
FacetPlacements == { <<2, 1>>, <<3, 1>> }

FacetEnergies == {51}

\* the draws of n agents: all on the near orbit, or every second agent on the
\* far orbit
FacetPlaces(n) ==
    { place \in [1..n -> FacetPlacements] :
         \/ \A i \in 1..n : place[i] = <<2, 1>>
         \/ \A i \in 1..n : place[i] = IF i % 2 = 0 THEN <<3, 1>> ELSE <<2, 1>> }

\* the vectors new_entities can give for the settings s
Entities(s) ==
    { new_entities(s, place, hues, draws) :
        place \in FacetPlaces(s.boids),
        hues \in [1..s.boids -> HueDraws],
        draws \in [1..s.boids -> FacetEnergies] }

\* Simulation::create
InitFacets ==
    /\ MeanIdle
    /\ settings \in SettingsDrawn
    /\ paused = FALSE
    /\ should_render = TRUE
    /\ \E e \in Entities(settings) :
          /\ entity_props = e.props
          /\ entity_positions = e.positions
          /\ entity_energy = e.energy
          /\ entity_comms = e.comms
    /\ cluster_map = ClusterMap_new
    /\ selected_satellite_id = None
    /\ election = None
    /\ offers = <<>>
    /\ originated = <<>>
    /\ relayed = <<>>
    /\ age = <<>>
    /\ QuadTreeIdle
    /\ GameIdle

\* mutant: the flag is set whatever the argument
set_selected_always(sat, selected) == [sat EXCEPT !.selected = TRUE]

\* SatelliteProperties::set_selected
set_selected(sat, selected) == [sat EXCEPT !.selected = selected]

\* Simulation::update(Msg::ClickedSat(id)); the view offers a click on every
\* satellite it draws
ClickedSat(id) ==
    /\ UNCHANGED mean_call
    /\ id \in Ids(entity_props)
    /\ IF selected_satellite_id = Some(id)
       THEN /\ selected_satellite_id' = None
            /\ entity_props' = [entity_props EXCEPT ![id + 1] = set_selected(@, FALSE)]
       ELSE LET deselected ==
                    IF selected_satellite_id # None
                    THEN [entity_props EXCEPT ![selected_satellite_id[1] + 1] =
                                                  set_selected(@, FALSE)]
                    ELSE entity_props
            IN /\ selected_satellite_id' = Some(id)
               /\ entity_props' = [deselected EXCEPT ![id + 1] = set_selected(@, TRUE)]
    /\ should_render' = TRUE
    /\ UNCHANGED <<qtree, calls, returned, settings, paused, entity_positions,
                   entity_energy, cluster_map, election>>
    /\ UNCHANGED gameVars
    /\ UNCHANGED commsVars

\* mutant: a reset keeps the ClusterMap of the last comms tick
changed_keeps_cluster_map(props_settings, restarted) ==
    LET should_reset == settings # props_settings \/ restarted
    IN /\ settings' = props_settings
       /\ IF should_reset
          THEN \E e \in Entities(props_settings) :
                  /\ entity_props' = e.props
                  /\ entity_positions' = e.positions
                  /\ entity_comms' = e.comms
                  /\ entity_energy' = e.energy
                  /\ selected_satellite_id' = None
                  /\ UNCHANGED cluster_map
                  /\ election' = None
          ELSE UNCHANGED <<entity_props, entity_positions, entity_comms, entity_energy,
                           selected_satellite_id, cluster_map, election>>
       /\ should_render' = should_reset
       /\ UNCHANGED <<qtree, calls, returned, paused, offers, originated, relayed, age>>
       /\ UNCHANGED gameVars
       /\ UNCHANGED mean_call

\* Simulation::changed.  props is the new value of the properties: its settings,
\* and whether its generation differs from self.generation (main.rs,
\* Msg::RestartSimulation).  The quadtree of the last comms tick is kept.
changed(props_settings, restarted) ==
    LET should_reset == settings # props_settings \/ restarted
    IN /\ settings' = props_settings
       /\ IF should_reset
          THEN \E e \in Entities(props_settings) :
                  /\ entity_props' = e.props
                  /\ entity_positions' = e.positions
                  /\ entity_comms' = e.comms
                  /\ entity_energy' = e.energy
                  /\ selected_satellite_id' = None
                  /\ cluster_map' = ClusterMap_new
                  /\ election' = None
          ELSE UNCHANGED <<entity_props, entity_positions, entity_comms, entity_energy,
                           selected_satellite_id, cluster_map, election>>
       /\ should_render' = should_reset
       /\ UNCHANGED <<qtree, calls, returned, paused, offers, originated, relayed, age>>
       /\ UNCHANGED gameVars
       /\ UNCHANGED mean_call

NextFacets ==
    \/ Tick
    \/ CommsTick
    \/ \E id \in 0..(MaxBoids - 1) : ClickedSat(id)
    \/ \E props_settings \in SettingsDrawn, restarted \in BOOLEAN :
          changed(props_settings, restarted)

SpecFacets == InitFacets /\ [][NextFacets]_vars

-----------------------------------------------------------------------------
(* The component with the pause button: create, Msg::Tick, Msg::CommsTick and *)
(* the App's Msg::TogglePause.                                                *)

NextPause ==
    \/ Tick
    \/ CommsTick
    \/ TogglePause

SpecPause == InitFacets /\ [][NextPause]_vars

-----------------------------------------------------------------------------
(* The component with satellites of different hues: create, Msg::Tick and     *)
(* Msg::CommsTick.                                                            *)

\* the draws of the agents in the runs with different hues
HuePlacements == { <<2, 1>>, <<3, 1>> }

HueSeeds == {0, 120}

\* Simulation::create
InitHue ==
    /\ MeanIdle
    /\ settings \in SettingsDrawn
    /\ paused = FALSE
    /\ should_render = TRUE
    /\ \E place \in [1..settings.boids -> HuePlacements],
          hues \in [1..settings.boids -> HueSeeds],
          draws \in [1..settings.boids -> Energies] :
          LET e == new_entities(settings, place, hues, draws)
          IN /\ entity_props = e.props
             /\ entity_positions = e.positions
             /\ entity_energy = e.energy
             /\ entity_comms = e.comms
    /\ cluster_map = ClusterMap_new
    /\ selected_satellite_id = None
    /\ election = None
    /\ offers = <<>>
    /\ originated = <<>>
    /\ relayed = <<>>
    /\ age = <<>>
    /\ QuadTreeIdle
    /\ GameIdle

NextHue ==
    \/ Tick
    \/ CommsTick

SpecHue == InitHue /\ [][NextHue]_vars

-----------------------------------------------------------------------------
(* weighted_mean under test (math.rs): calls on lists of (value, weight).      *)

MeanValues == {0 - 2, 0, 4}

\* negative, subnormal, zero and positive weights
MeanWeights == {0 - 4, 0 - 1, 0, 1, 4}

MeanInputs ==
    UNION { [1..n -> MeanValues \X MeanWeights] : n \in 0..MaxItems }

InitMean ==
    /\ mean_call = None
    /\ QuadTreeIdle
    /\ SimIdle
    /\ GameIdle
    /\ CommsIdle

WeightedMean(it) ==
    /\ mean_call' = Some([it |-> it, result |-> weighted_mean(it)])
    /\ UNCHANGED <<qtree, calls, returned>>
    /\ UNCHANGED simVars
    /\ UNCHANGED gameVars
    /\ UNCHANGED commsVars

NextMean == \E it \in MeanInputs : WeightedMean(it)

SpecMean == InitMean /\ [][NextMean]_vars

-----------------------------------------------------------------------------
(* The game tick (spec.md 4.3, 5): the two-phase energy game over the        *)
(* ClusterMap of the most recent comms tick.  The agents of a cluster are    *)
(* the ids of its member list; update_game is given the cluster, update the  *)
(* SatelliteEnergy of every other member.                                    *)

\* the members of a cluster other than the one at place k, in list order
RECURSIVE other_members(_, _, _)
other_members(members, k, j) ==
    IF j > Len(members) THEN <<>>
    ELSE IF j = k THEN other_members(members, k, j + 1)
    ELSE <<members[j]>> \o other_members(members, k, j + 1)

\* the SatelliteEnergy of the agents of a list of ids
energies_of(energies, ids) == [j \in DOMAIN ids |-> at(energies, ids[j])]

\* what a settlement read: the neighbors' ids and the flags it was given
flags_read(energies, ids) ==
    [j \in DOMAIN ids |-> <<ids[j], at(energies, ids[j]).in_game>>]

\* Phase A: update_game for every member of the cluster
RECURSIVE game_decide(_, _, _, _)
game_decide(energies, cluster, k, draws) ==
    IF k > Len(cluster.members) THEN energies
    ELSE LET id == cluster.members[k]
         IN game_decide([energies EXCEPT ![id + 1] = update_game(@, cluster.size, draws[id + 1])],
                        cluster, k + 1, draws)

\* Phase B: update for every member of the cluster.  Returns [energies, reads].
RECURSIVE game_settle(_, _, _, _)
game_settle(energies, cluster, k, reads) ==
    IF k > Len(cluster.members) THEN [energies |-> energies, reads |-> reads]
    ELSE LET id == cluster.members[k]
             others == other_members(cluster.members, k, 1)
         IN game_settle([energies EXCEPT ![id + 1] = update(@, energies_of(energies, others))],
                        cluster, k + 1,
                        [reads EXCEPT ![id + 1] = flags_read(energies, others)])

\* mutant: every member decides and settles in one step, one member after another
RECURSIVE game_cluster_interleaved(_, _, _, _, _)
game_cluster_interleaved(energies, cluster, k, draws, reads) ==
    IF k > Len(cluster.members) THEN [energies |-> energies, reads |-> reads]
    ELSE LET id == cluster.members[k]
             others == other_members(cluster.members, k, 1)
             decided == [energies EXCEPT ![id + 1] = update_game(@, cluster.size, draws[id + 1])]
         IN game_cluster_interleaved(
                [decided EXCEPT ![id + 1] = update(@, energies_of(decided, others))],
                cluster, k + 1, draws,
                [reads EXCEPT ![id + 1] = flags_read(decided, others)])

\* one cluster: Phase A for all its members, then Phase B for all its members
game_cluster(energies, cluster, k, draws, reads) ==
    game_settle(game_decide(energies, cluster, k, draws), cluster, k, reads)

\* Phase A of one cluster alone, for the record of the round
game_cluster_decided(energies, cluster, draws) == game_decide(energies, cluster, 1, draws)

\* all clusters of the map, one after another.  Returns [energies, reads, decided].
RECURSIVE game_tick(_, _, _, _, _, _)
game_tick(energies, map, heads, draws, reads, decided) ==
    IF heads = {} THEN [energies |-> energies, reads |-> reads, decided |-> decided]
    ELSE LET h == CHOOSE x \in heads : \A y \in heads : x <= y
             r == game_cluster(energies, map[h], 1, draws, reads)
             d == game_cluster_decided(energies, map[h], draws)
         IN game_tick(r.energies, map, heads \ {h}, draws, r.reads,
                      [i \in DOMAIN decided |->
                          IF i - 1 \in Range(map[h].members) THEN d[i].in_game
                          ELSE decided[i]])

\* the ClusterMaps a comms tick leaves for three agents
GameClusterMaps ==
    { ClusterMap_insert(ClusterMap_new,
          add_member(add_member(Cluster_new(0, 0), 1), 2)),
      ClusterMap_insert(ClusterMap_insert(ClusterMap_new,
          add_member(Cluster_new(0, 0), 1)), Cluster_new(2, 0)),
      ClusterMap_insert(ClusterMap_new, add_member(Cluster_new(1, 0), 2)) }

GameTickSettings ==
    [boids |-> 3, energy_threshold |-> 50, cluster_distance |-> 6,
     comms_cost |-> 20, energy_gain |-> 30, max_energy |-> 60]

GameTickDraws == {20, 50}

InitGame ==
    /\ MeanIdle
    /\ settings = GameTickSettings
    /\ paused = FALSE
    /\ should_render = TRUE
    /\ entity_props = [i \in 1..settings.boids |-> SatelliteProperties_new_random(i - 1, 2, 0)]
    /\ entity_positions =
          [i \in 1..settings.boids |->
              SatellitePosition_new_random(SatelliteProperties_new_random(i - 1, 2, 0), i)]
    /\ \E draws \in [1..settings.boids -> GameTickDraws] :
          entity_energy =
             [i \in 1..settings.boids |->
                 SatelliteEnergy_new_random(i - 1, settings, draws[i])]
    /\ cluster_map \in GameClusterMaps
    /\ selected_satellite_id = None
    /\ election = None
    /\ entity_comms = [i \in 1..settings.boids |-> SatelliteComms_new(i - 1)]
    /\ offers = <<>>
    /\ originated = <<>>
    /\ relayed = <<>>
    /\ age = <<>>
    /\ QuadTreeIdle
    /\ GameIdle

\* the game tick; draws are what rng.gen_bool gives each agent
GameTick ==
    /\ UNCHANGED mean_call
    /\ \E draws \in [DOMAIN entity_energy -> BOOLEAN] :
          LET r == game_tick(entity_energy, cluster_map, DOMAIN cluster_map, draws,
                             [i \in DOMAIN entity_energy |-> <<>>],
                             [i \in DOMAIN entity_energy |-> entity_energy[i].in_game])
          IN /\ entity_energy' = r.energies
             /\ game_round' = Some([decided |-> r.decided, reads |-> r.reads,
                                    before |-> entity_energy])
    /\ UNCHANGED <<qtree, calls, returned, settings, paused, entity_props,
                   entity_positions, cluster_map, selected_satellite_id, election,
                   should_render, game, game_call>>
    /\ UNCHANGED commsVars

NextGame == GameTick

SpecGame == InitGame /\ [][NextGame]_vars

-----------------------------------------------------------------------------
(* Claims about the quadtree, checked under SpecQuadTree *)

Count(seq, e) == Cardinality({i \in DOMAIN seq : seq[i] = e})

\* a point lies inside a box, edges included
Inside(box, p) ==
    /\ box.top_left.x <= p.x /\ p.x <= box.btm_right.x
    /\ box.btm_right.y <= p.y /\ p.y <= box.top_left.y

StrictlyOutside(box, p) ==
    \/ p.x < box.top_left.x \/ p.x > box.btm_right.x
    \/ p.y < box.btm_right.y \/ p.y > box.top_left.y

\* the places of a tree that hold an entry: <<path, index>>
Slots(tree) ==
    UNION { {<<path, i>> : i \in DOMAIN tree.nodes[path].entries} : path \in DOMAIN tree.nodes }

Stored(tree) == {tree.nodes[s[1]].entries[s[2]] : s \in Slots(tree)}

StoredCount(tree, e) ==
    Cardinality({s \in Slots(tree) : tree.nodes[s[1]].entries[s[2]] = e})

IsSplit(tree, path) == ~north_east_is_none(tree, path)

CallsDistinctInBoundary ==
    \A i \in DOMAIN calls :
        /\ Inside(QTRoot, calls[i].point)
        /\ \A j \in DOMAIN calls : calls[i].point = calls[j].point => i = j

\* C1: after inserts of pairwise-distinct points inside the root boundary into a
\* fresh tree, query_range(root boundary) returns every inserted (point, id) entry
\* exactly once: none is missing, none is duplicated, nothing else is returned.
C1_QuadtreeCompleteness ==
    (returned.op = "query_range" /\ returned.arg = QTRoot /\ CallsDistinctInBoundary)
        => /\ \A i \in DOMAIN calls :
                Count(returned.result, Entry(calls[i].point, calls[i].value)) = 1
           /\ Len(returned.result) = Len(calls)

C1_Witness ==
    /\ returned.op = "query_range" /\ returned.arg = QTRoot
    /\ CallsDistinctInBoundary
    /\ Len(calls) >= 3
    /\ IsSplit(qtree[1], <<>>)
    /\ \E path \in DOMAIN qtree[1].nodes : path # <<>> /\ IsSplit(qtree[1], path)

\* C2: insert of a point strictly outside the root boundary returns false and
\* leaves the whole tree unchanged (no entry added, no node subdivided); the point
\* is stored nowhere and no later query_range returns it.
C2_QuadtreeRejection ==
    /\ [](/\ (returned.op = "insert" /\ StrictlyOutside(QTRoot, returned.arg))
                => returned.result = FALSE
          /\ \A e \in Stored(qtree[1]) : ~StrictlyOutside(QTRoot, e.point)
          /\ returned.op = "query_range"
                => \A k \in DOMAIN returned.result :
                        ~StrictlyOutside(QTRoot, returned.result[k].point))
    /\ [][(/\ calls' # calls
           /\ StrictlyOutside(QTRoot, returned'.arg)) => qtree' = qtree]_vars

C2_Witness ==
    /\ returned.op = "query_range"
    /\ \E i \in DOMAIN calls :
          /\ StrictlyOutside(QTRoot, calls[i].point)
          /\ ~calls[i].ok
          /\ Inside(returned.arg, calls[i].point)
          /\ \E j \in DOMAIN calls : j < i /\ calls[j].ok
    /\ IsSplit(qtree[1], <<>>)

\* every well-formed box over the coordinates -1, 0, 1 and the root's far edge
QTCoords == {0 - 1, 0, 1, QTSize}

QTAllRanges ==
    { Box2d(Point(c[1], c[4]), Point(c[2], c[3])) :
        c \in { d \in QTCoords \X QTCoords \X QTCoords \X QTCoords :
                    d[1] <= d[2] /\ d[3] <= d[4] } }

\* result holds exactly the stored entries whose point lies inside range, each once
Matches(result, tree, range) ==
    /\ \A k \in DOMAIN result :
          Inside(range, result[k].point) /\ result[k] \in Stored(tree)
    /\ \A e \in Stored(tree) :
          Inside(range, e.point) => Count(result, e) = StoredCount(tree, e)

\* C3: for any tree reached by inserts and any box, query_range(box) returns
\* exactly the stored entries whose point lies inside the box, each once, and no
\* entry outside it: pruning the subtrees whose boundary does not intersect the
\* box loses nothing.  Checked for the query made and, on every tree, for every
\* box of QTAllRanges.
C3_QueryRangeExact ==
    /\ returned.op = "query_range"
          => Matches(returned.result, qtree[1], returned.arg)
    /\ returned.op # "query_range"
          => \A range \in QTAllRanges :
                Matches(query_range(qtree[1], <<>>, range), qtree[1], range)

C3_Witness ==
    /\ returned.op = "query_range"
    /\ IsSplit(qtree[1], <<>>)
    /\ returned.result # <<>>
    /\ \E e \in Stored(qtree[1]) : ~Inside(returned.arg, e.point)
    /\ \E path \in DOMAIN qtree[1].nodes :
          /\ path # <<>>
          /\ ~intersects_box(qtree[1].nodes[path].boundary, returned.arg)
          /\ qtree[1].nodes[path].entries # <<>>
    /\ \E path \in DOMAIN qtree[1].nodes :
          /\ path # <<>>
          /\ \E i \in DOMAIN qtree[1].nodes[path].entries :
                Inside(returned.arg, qtree[1].nodes[path].entries[i].point)

\* a cell can be halved: its midpoint lies strictly between its edges on both axes
CanHalve(box) ==
    /\ box.top_left.x < midpoint(box.btm_right.x, box.top_left.x)
    /\ midpoint(box.btm_right.x, box.top_left.x) < box.btm_right.x
    /\ box.btm_right.y < midpoint(box.btm_right.y, box.top_left.y)
    /\ midpoint(box.btm_right.y, box.top_left.y) < box.top_left.y

\* C4: subdivision is bounded by a minimum cell size (equivalently a maximum
\* depth): a cell that can no longer be halved is never subdivided, however many
\* coincident points are inserted.
C4_SubdivisionBounded ==
    \A path \in DOMAIN qtree[1].nodes :
        IsSplit(qtree[1], path) => CanHalve(qtree[1].nodes[path].boundary)

\* the child fields of a split node whose boundary contains the point
ChildrenContaining(tree, path, p) ==
    {name \in {"north_west", "north_east", "south_east", "south_west"} :
        Inside(tree.nodes[child(path, name)].boundary, p)}

\* the first child field, in the given order, whose boundary contains the point
FirstContaining(tree, path, p, order) ==
    order[CHOOSE i \in DOMAIN order :
            /\ order[i] \in ChildrenContaining(tree, path, p)
            /\ \A j \in 1..(i - 1) : order[j] \notin ChildrenContaining(tree, path, p)]

\* every entry stored below a split node lies, at every level, in the first child
\* of the given order whose boundary contains its point
StoredInFirstOf(order) ==
    \A s \in Slots(qtree[1]) :
        \A k \in 1..Len(s[1]) :
            s[1][k] = FirstContaining(qtree[1], SubSeq(s[1], 1, k - 1),
                                      qtree[1].nodes[s[1]].entries[s[2]].point, order)

\* C23 as claimed: when a split node delegates an insert and the point lies inside
\* the boundary of more than one child, the entry is stored in the first child
\* that contains it in the order NW, NE, SE, SW.
C23_ChildOrderSouthEastFirst ==
    StoredInFirstOf(<<"north_west", "north_east", "south_east", "south_west">>)

\* C23 amended: when a split node delegates an insert and the point lies inside
\* the boundary of more than one child, the entry is stored in the first child
\* that contains it in the order NW, NE, SW, SE.
C23_ChildOrderSouthWestFirst ==
    StoredInFirstOf(<<"north_west", "north_east", "south_west", "south_east">>)

\* an entry on the edge shared by the south-west and south-east children only is
\* stored below the south-west child
C23_Witness ==
    \E s \in Slots(qtree[1]) :
        /\ s[1] # <<>>
        /\ s[1][1] = "south_west"
        /\ ChildrenContaining(qtree[1], <<>>, qtree[1].nodes[s[1]].entries[s[2]].point)
               = {"south_east", "south_west"}

\* the entries stored in the subtree below a path
StoredBelow(tree, path) ==
    {s \in Slots(tree) : Len(s[1]) >= Len(path) /\ SubSeq(s[1], 1, Len(path)) = path}

NodeStorage(tree) ==
    \A path \in DOMAIN tree.nodes :
        /\ Len(tree.nodes[path].entries) <= tree.capacity
        /\ \A i \in DOMAIN tree.nodes[path].entries :
               Inside(tree.nodes[path].boundary, tree.nodes[path].entries[i].point)

\* the slots of the tree after the step that the tree before it did not have
NewSlots == Slots(qtree'[1]) \ Slots(qtree[1])

\* C24: after any sequence of inserts no node's own entry list is longer than its
\* capacity, every stored entry lies inside the boundary of the node that holds
\* it, each successful insert adds the entry to exactly one node of the tree, and
\* once a node is split every later entry accepted by it is stored in exactly one
\* of its children.
C24_NodeStorageInvariant ==
    [][ (returned'.op = "insert") =>
          /\ NodeStorage(qtree'[1])
          /\ Slots(qtree[1]) \subseteq Slots(qtree'[1])
          /\ \A s \in Slots(qtree[1]) :
                 qtree'[1].nodes[s[1]].entries[s[2]] = qtree[1].nodes[s[1]].entries[s[2]]
          /\ Cardinality(NewSlots) = (IF returned'.result THEN 1 ELSE 0)
          /\ \A s \in NewSlots :
                 qtree'[1].nodes[s[1]].entries[s[2]]
                     = Entry(returned'.arg, Len(calls))
          /\ \A path \in DOMAIN qtree[1].nodes :
                 (IsSplit(qtree[1], path) /\ returned'.result
                      /\ Inside(qtree[1].nodes[path].boundary, returned'.arg)
                      /\ NewSlots \subseteq StoredBelow(qtree'[1], path))
                     => Cardinality({name \in {"north_west", "north_east",
                                               "south_east", "south_west"} :
                            NewSlots \subseteq StoredBelow(qtree'[1], child(path, name))}) = 1
      ]_vars

\* a full node has been split and a later insert went to one of its children,
\* whose own node is full as well
C24_Witness ==
    /\ IsSplit(qtree[1], <<>>)
    /\ Len(qtree[1].nodes[<<>>].entries) = qtree[1].capacity
    /\ \E path \in DOMAIN qtree[1].nodes :
           /\ path # <<>>
           /\ Len(qtree[1].nodes[path].entries) = qtree[1].capacity
    /\ returned.op = "insert" /\ returned.result

\* C25: a quadtree node goes from unsplit to split at most once and never back;
\* after the split its four children are never replaced (entries already stored
\* in children survive every later insert), and a node's boundary is never
\* modified after the node is created.
C25_SplitOnce ==
    [][ \A path \in DOMAIN qtree[1].nodes :
          /\ path \in DOMAIN qtree'[1].nodes
          /\ qtree'[1].nodes[path].boundary = qtree[1].nodes[path].boundary
          /\ IsSplit(qtree[1], path) => IsSplit(qtree'[1], path)
          /\ \A i \in DOMAIN qtree[1].nodes[path].entries :
                 /\ i \in DOMAIN qtree'[1].nodes[path].entries
                 /\ qtree'[1].nodes[path].entries[i] = qtree[1].nodes[path].entries[i]
      ]_vars

\* an insert into a tree whose root is split and whose children hold entries
C25_Witness ==
    /\ returned.op = "insert" /\ returned.result
    /\ Len(calls) >= 3
    /\ IsSplit(qtree[1], <<>>)
    /\ \E path \in DOMAIN qtree[1].nodes :
           path # <<>> /\ IsSplit(qtree[1], path)
    /\ \E path \in DOMAIN qtree[1].nodes :
           path # <<>> /\ Len(qtree[1].nodes[path].entries) >= 1

-----------------------------------------------------------------------------
(* Claims about cluster formation, checked under Spec *)

\* the last comms tick
LastTick == election[1]

\* the square of the distance between satellites a and b at the last comms tick
Dist2(a, b) ==
    LET p == at(LastTick.positions, a).position
        q == at(LastTick.positions, b).position
    IN (p.x - q.x) * (p.x - q.x) + (p.y - q.y) * (p.y - q.y)

\* the square of the distance between satellite a and the earth (the centre)
EarthDist2(a) ==
    LET p == at(LastTick.positions, a).position
    IN (p.x - SIZE \div 2) * (p.x - SIZE \div 2) + (p.y - SIZE \div 2) * (p.y - SIZE \div 2)

ClusterDistance2 == settings.cluster_distance * settings.cluster_distance

AgentIds == Ids(entity_props)

Heads == DOMAIN cluster_map

\* the followers of a cluster: its member list without the head
Followers(h) == {m \in Range(cluster_map[h].members) : m # h}

\* C5: in a comms tick the agents are scanned in ascending id order, and an agent
\* is elected head if and only if its energy is strictly greater than
\* energy_threshold and it is at least cluster_distance away from every head
\* accepted earlier in the scan; no agent with energy <= threshold is a head.
C5_HeadElectionRule ==
    election # None =>
        /\ Heads = Range(LastTick.cluster_heads)
        /\ \A i, j \in DOMAIN LastTick.cluster_heads :
              i < j => LastTick.cluster_heads[i] < LastTick.cluster_heads[j]
        /\ \A a \in AgentIds :
              a \in Heads <=>
                  /\ at(LastTick.energies, a).energy > settings.energy_threshold
                  /\ \A h \in Heads : h < a => Dist2(a, h) >= ClusterDistance2
        /\ \A a \in AgentIds :
              at(LastTick.energies, a).energy <= settings.energy_threshold => a \notin Heads

C5_Witness ==
    /\ election # None
    /\ Heads # {}
    /\ \E a \in AgentIds \ Heads :
          at(LastTick.energies, a).energy > settings.energy_threshold
    /\ \E a \in AgentIds \ Heads :
          at(LastTick.energies, a).energy = settings.energy_threshold

\* C38 (checked under SpecPause): while paused, a Tick or a CommsTick changes
\* nothing (positions, energies, hues, inboxes, sequence counters, ClusterMap,
\* stored quadtree) and the handler reports no re-render.
C38_PauseFrame ==
    /\ [](paused => ~should_render)
    /\ [][(paused /\ paused') =>
             /\ ~should_render'
             /\ UNCHANGED <<entity_positions, entity_energy, entity_props, entity_comms,
                            cluster_map, qtree, selected_satellite_id, settings,
                            election>>]_vars

\* the simulation is paused after a comms tick that formed a cluster with a
\* follower and stored its quadtree
C38_Witness ==
    /\ paused
    /\ ~should_render
    /\ qtree # None
    /\ \E h \in Heads : Followers(h) # {}

\* the agents whose energy exceeded the threshold at the last comms tick
Candidates ==
    {a \in AgentIds : at(LastTick.energies, a).energy > settings.energy_threshold}

\* C35: after head election the lowest-id agent with energy > energy_threshold
\* (if any) is a head, and every candidate that was not elected lies at distance
\* < cluster_distance from some elected head with a smaller id.
C35_MaximalElection ==
    election # None =>
        /\ \A a \in Candidates :
              (\A b \in Candidates : a <= b) => a \in Heads
        /\ \A a \in Candidates \ Heads :
              \E h \in Heads : h < a /\ Dist2(a, h) < ClusterDistance2

\* the lowest candidate is not agent 0, and a later candidate was turned down
\* for a head with a smaller id
C35_Witness ==
    /\ election # None
    /\ 0 \notin Candidates
    /\ \E a \in Candidates \ Heads, h \in Heads : h < a

\* C6: after every comms tick any two distinct heads of the ClusterMap are at
\* least cluster_distance apart, at the positions of that tick.
C6_HeadSeparation ==
    election # None =>
        \A h1, h2 \in Heads : h1 # h2 => Dist2(h1, h2) >= ClusterDistance2

C6_Witness ==
    /\ election # None
    /\ Cardinality(Heads) = 3
    /\ \E h1, h2 \in Heads : h1 # h2 /\ Dist2(h1, h2) = ClusterDistance2

\* C7: after every comms tick no agent id is in the member lists of two
\* different clusters, and no head's id is in the member list of a cluster
\* headed by another agent.
C7_ClusterExclusivity ==
    \A h1, h2 \in Heads :
        h1 # h2 =>
            /\ Range(cluster_map[h1].members) \cap Range(cluster_map[h2].members) = {}
            /\ h1 \notin Range(cluster_map[h2].members)

C7_Witness ==
    /\ election # None
    /\ \E h1, h2 \in Heads :
          /\ h1 # h2
          /\ \E m \in Followers(h1) : Dist2(m, h2) < EarthDist2(m)

ClustersOf(a) == {h \in Heads : a \in Range(cluster_map[h].members)}

\* C9 as claimed: in every comms tick that elects at least one head, every
\* non-head agent becomes a member of exactly one cluster.
C9_EveryAgentClustered ==
    (election # None /\ Heads # {}) =>
        \A a \in AgentIds \ Heads : Cardinality(ClustersOf(a)) = 1

\* C9 amended: a non-head agent becomes a member of exactly one cluster (once)
\* when some elected head is strictly nearer to it than the earth is, and of no
\* cluster otherwise, in particular when no head was elected.
C9_ClusteredIfHeadNearerThanEarth ==
    election # None =>
        \A a \in AgentIds \ Heads :
            IF \E h \in Heads : Dist2(a, h) < EarthDist2(a)
            THEN /\ Cardinality(ClustersOf(a)) = 1
                 /\ \A h \in ClustersOf(a) : Count(cluster_map[h].members, a) = 1
            ELSE ClustersOf(a) = {}

C9_Witness ==
    /\ election # None
    /\ Heads # {}
    /\ \E a \in AgentIds \ Heads : ClustersOf(a) = {}
    /\ \E a \in AgentIds \ Heads : ClustersOf(a) # {}

\* the place of head h in the head iteration order of the last comms tick
HeadOrder(h) == CHOOSE k \in DOMAIN LastTick.cluster_heads : LastTick.cluster_heads[k] = h

\* C10: whenever a non-head agent is added to a cluster, that cluster's head is
\* at the minimum distance from the agent among all elected heads, and among the
\* heads at that minimum distance it is the one elected earliest.
C10_NearestHeadAssignment ==
    election # None =>
        \A h \in Heads : \A a \in Followers(h) :
            \A g \in Heads :
                /\ Dist2(a, h) <= Dist2(a, g)
                /\ (g # h /\ Dist2(a, g) = Dist2(a, h)) => HeadOrder(h) < HeadOrder(g)

C10_Witness ==
    /\ election # None
    /\ \E h \in Heads : \E a \in Followers(h) :
          \E g \in Heads : g # h /\ Dist2(a, g) = Dist2(a, h)

\* the followers the last comms tick gives head h: the non-head agents for which
\* h is nearer than the earth and is the first head at the least distance
AssignedTo(h) ==
    {a \in AgentIds \ Heads :
        /\ Dist2(a, h) < EarthDist2(a)
        /\ \A g \in Heads : Dist2(a, h) <= Dist2(a, g)
        /\ \A g \in Heads : Dist2(a, g) = Dist2(a, h) => HeadOrder(h) <= HeadOrder(g)}

\* C11: after every comms tick the ClusterMap has exactly one entry per head
\* elected in that tick, stored under the head's id, and nothing else: a head of
\* the previous tick that was not elected again has no entry, and the member
\* list of every entry is made of this tick's assignments only.
C11_ClusterMapReplaced ==
    election # None =>
        /\ DOMAIN cluster_map = Range(LastTick.cluster_heads)
        /\ \A h \in DOMAIN cluster_map : cluster_map[h].head = h
        /\ \A h \in LastTick.prev_heads :
              h \notin Range(LastTick.cluster_heads) => h \notin DOMAIN cluster_map
        /\ \A h \in DOMAIN cluster_map : Followers(h) = AssignedTo(h)

C11_Witness ==
    /\ election # None
    /\ Heads # {}
    /\ \E h \in LastTick.prev_heads : h \notin Heads

-----------------------------------------------------------------------------
(* Claims about hues, checked under SpecHue *)

\* a step of SpecHue that leaves the positions alone is a comms tick
IsCommsTickStep == entity_positions' = entity_positions /\ election' # None

\* the sum of the hues the agents of a list have in props
RECURSIVE HueSum(_, _)
HueSum(ids, props) ==
    IF ids = <<>> THEN 0 ELSE at(props, Head(ids)).hue + HueSum(Tail(ids), props)

\* C27: when an agent is elected head in a comms tick, its new cluster's starting
\* hue (before blending) is the hue of the previous tick's cluster with the same
\* head id if the previous ClusterMap had one, and otherwise the head's own
\* current hue; it is never a fresh random value.
C27_HueContinuity ==
    [][ IsCommsTickStep =>
          \A h \in DOMAIN cluster_map' :
              /\ election'[1].started[h] =
                    IF h \in DOMAIN cluster_map THEN cluster_map[h].color
                    ELSE at(entity_props, h).hue
              /\ election'[1].started[h] \notin ColorDraws
      ]_vars

\* the last comms tick elected a head that headed a cluster before, whose
\* starting hue is a blend carried over, and a head that did not
C27_Witness ==
    /\ election # None
    /\ \E h \in Heads : h \in LastTick.prev_heads /\ LastTick.started[h] \notin HueSeeds
    /\ \E g \in Heads : g \notin LastTick.prev_heads

\* the agents of the clusters of two or more after the step
Blended == UNION {Range(cluster_map'[h].members) :
                     h \in {g \in DOMAIN cluster_map' : cluster_map'[g].size >= 2}}

\* the hues after the step: the cluster h and its members show the hue color(h)
\* where the size is 2 or more, and the blending changes no other hue
HuesAfterBlending(color(_)) ==
    /\ \A h \in DOMAIN cluster_map' :
          IF cluster_map'[h].size >= 2
          THEN /\ cluster_map'[h].color = color(h)
               /\ \A m \in Range(cluster_map'[h].members) :
                     at(entity_props', m).hue = color(h)
          ELSE cluster_map'[h].color = election'[1].started[h]
    /\ \A a \in Ids(entity_props) \ Blended :
          at(entity_props', a).hue =
              IF a \in DOMAIN cluster_map' THEN election'[1].started[a]
              ELSE at(entity_props, a).hue

\* ((starting hue + average of the followers' hues) / 2) mod 360
BlendWithFollowers(h) ==
    LET followers == Tail(cluster_map'[h].members)
    IN ((election'[1].started[h] + HueSum(followers, entity_props) \div Len(followers))
            \div 2) % 360

\* ((starting hue + average of the members' hues, the head's included) / 2) mod 360
BlendWithMembers(h) ==
    LET members == cluster_map'[h].members
    IN ((election'[1].started[h] + HueSum(members, entity_props) \div Len(members))
            \div 2) % 360

-----------------------------------------------------------------------------
(* Claims about the energy game, checked under SpecEnergy *)

Sat == game[1]

LastCall == game_call[1]

\* C12: in every reachable state, from the creation of the agent on and after
\* any sequence of update_game and update calls, 0 <= energy <= max_energy.
C12_EnergyBounds ==
    0 <= Sat.energy /\ Sat.energy <= Sat.max_energy

\* C13: whatever the cluster size and the value in_game had before, an agent
\* whose energy is strictly less than its cost has in_game = false after
\* update_game.
C13_DecisionBoundary ==
    (LastCall.op = "update_game" /\ LastCall.before.energy < LastCall.before.cost)
        => Sat.in_game = FALSE

C13_Witness ==
    /\ LastCall.op = "update_game"
    /\ LastCall.before.energy < LastCall.before.cost
    /\ LastCall.before.in_game
    /\ LastCall.size >= 2

\* C14: update_game on a cluster of size < 2 with energy >= cost gives
\* in_game = (energy > cost), whatever the random source would have drawn, and
\* leaves the cached entering-probability and everything else as it was.
C14_SingleMemberDecision ==
    (/\ LastCall.op = "update_game"
     /\ LastCall.size < 2
     /\ LastCall.before.energy >= LastCall.before.cost)
        => Sat = [LastCall.before EXCEPT
                    !.in_game = (LastCall.before.energy > LastCall.before.cost)]

C14_Witness ==
    /\ LastCall.op = "update_game"
    /\ LastCall.size < 2
    /\ LastCall.before.energy = LastCall.before.cost
    /\ LastCall.before.cost > 0
    /\ LastCall.before.in_game
    /\ LastCall.before.prob_entering # <<100>>
    /\ LastCall.draw

\* the neighbors of the last update call that are in the game
InGameNeighbors == {k \in DOMAIN LastCall.neighbors : LastCall.neighbors[k].in_game}

Max(a, b) == IF a >= b THEN a ELSE b

Min(a, b) == IF a <= b THEN a ELSE b

\* C15: update sets energy to max(energy - cost, 0) when the agent is in the
\* game; otherwise to min(energy + gain, max_energy) when at least one neighbor
\* is in the game; otherwise it leaves energy as it was.  Nothing but energy
\* changes, and an agent in the game never receives the gain.
C15_SettlementRule ==
    LastCall.op = "update" =>
        LET before == LastCall.before
        IN Sat = [before EXCEPT !.energy =
                    IF before.in_game THEN Max(before.energy - before.cost, 0)
                    ELSE IF InGameNeighbors # {}
                         THEN Min(before.energy + before.gain, before.max_energy)
                         ELSE before.energy]

C15_Witness ==
    /\ LastCall.op = "update"
    /\ LastCall.before.in_game
    /\ InGameNeighbors # {}
    /\ LastCall.before.gain > 0
    /\ LastCall.before.energy < LastCall.before.cost
    /\ Sat.energy = 0

\* p = 1 - ((cost + gain) / (energy + gain))^(1 / n) is a number in [0, 1]: the
\* quotient is defined and lies in [0, 1]
ProbInRange(sat) ==
    LET b == sat.cost + sat.gain
        d == sat.energy + sat.gain
    IN d # 0 /\ b * d >= 0 /\ b * b <= d * d

\* C29: in update_game with cluster size >= 2 and energy >= cost, if the computed
\* entering-probability p is NaN or outside [0, 1] the agent ends with in_game =
\* false and the cached entering-probability keeps its previous value; otherwise
\* the cached entering-probability is set to p.  In neither case does
\* update_game abort or change energy.
C29_NumericDegeneracy ==
    (/\ LastCall.op = "update_game"
     /\ LastCall.size >= 2
     /\ LastCall.before.energy >= LastCall.before.cost)
        => /\ Sat.energy = LastCall.before.energy
           /\ IF ProbInRange(LastCall.before)
              THEN Sat.prob_entering =
                      << LastCall.before.cost + LastCall.before.gain,
                         LastCall.before.energy + LastCall.before.gain,
                         LastCall.size - 1 >>
              ELSE /\ Sat.in_game = FALSE
                   /\ Sat.prob_entering = LastCall.before.prob_entering

\* update_game on a cluster of three computed 0 / 0, with a draw that would
\* have entered the game
C29_Witness ==
    /\ LastCall.op = "update_game"
    /\ LastCall.size >= 3
    /\ LastCall.before.energy >= LastCall.before.cost
    /\ ~ProbInRange(LastCall.before)
    /\ LastCall.draw

-----------------------------------------------------------------------------
(* Claims about the game tick, checked under SpecGame *)

Round == game_round[1]

Orders(n) == {f \in [1..n -> 1..n] : \A i, j \in 1..n : i # j => f[i] # f[j]}

\* update for the members of a cluster in the given order, each given the
\* SatelliteEnergy of every other member as it is at that moment
RECURSIVE SettleInOrder(_, _, _, _)
SettleInOrder(energies, members, order, k) ==
    IF k > Len(order) THEN energies
    ELSE LET id == members[order[k]]
             others == other_members(members, order[k], 1)
         IN SettleInOrder(
                [energies EXCEPT ![id + 1] = update(@, energies_of(energies, others))],
                members, order, k + 1)

\* the agents as Phase A of the last round left them: the flags and the cached
\* probabilities of the round, the energies from before it
AfterPhaseA ==
    [i \in DOMAIN entity_energy |->
        [entity_energy[i] EXCEPT !.energy = Round.before[i].energy,
                                 !.in_game = Round.decided[i]]]

\* C36: given the in_game flags fixed by Phase A, update reads only the agent's
\* own in_game and energy and the neighbors' in_game flags and writes only the
\* agent's own energy, so any order of update over the members of a cluster
\* yields the energies the round ended with; update changes no in_game flag and
\* no cached entering probability.
C36_SettlementOrderIndependence ==
    game_round # None =>
        \A h \in DOMAIN cluster_map :
            LET members == cluster_map[h].members
            IN \A order \in Orders(Len(members)) :
                  LET settled == SettleInOrder(AfterPhaseA, members, order, 1)
                  IN /\ \A m \in Range(members) : settled[m + 1] = entity_energy[m + 1]
                     /\ \A i \in DOMAIN settled :
                           [settled[i] EXCEPT !.energy = AfterPhaseA[i].energy]
                               = AfterPhaseA[i]

\* a round in a cluster of three in which one member paid the cost and another
\* was recharged
C36_Witness ==
    /\ game_round # None
    /\ \E h \in DOMAIN cluster_map :
          /\ Len(cluster_map[h].members) = 3
          /\ \E m, n \in Range(cluster_map[h].members) :
                /\ Round.decided[m + 1] /\ ~Round.decided[n + 1]
                /\ at(entity_energy, m).energy < at(Round.before, m).energy
                /\ at(entity_energy, n).energy > at(Round.before, n).energy

-----------------------------------------------------------------------------
(* Claims about packets, checked under SpecComms *)

\* the packets held in the inboxes
InboxPackets == UNION {Range(entity_comms[i].packets) : i \in DOMAIN entity_comms}

\* the receivers recorded in a path
Receivers(path) == {path[k].to : k \in DOMAIN path}

\* the ids that appear in a path, as sender or receiver of a hop
Visited(path) == {path[k].from : k \in DOMAIN path} \cup Receivers(path)

Accepted(o) == Len(o.after) = Len(o.before) + 1

\* C17: for every packet held in an inbox, no agent id occurs twice among the
\* receivers recorded in its path: add_packet never enqueues a packet at an
\* agent the packet has already visited.
C17_PacketLoopFreedom ==
    \A p \in InboxPackets :
        \A j, k \in DOMAIN p.path : j # k => p.path[j].to # p.path[k].to

C17_Witness ==
    /\ \E o \in Range(offers) : o.to \in Receivers(o.packet.path) /\ ~Accepted(o)
    /\ \E p \in InboxPackets : Len(p.path) >= 2

\* C18: for every packet held in an inbox the path is at most as long as the
\* initial ttl, 10, and the ttl has not gone below 0.
C18_PacketTtlBound ==
    \A p \in InboxPackets : Len(p.path) <= INITIAL_TTL /\ p.ttl >= 0

C18_Witness ==
    \E p \in InboxPackets : p.ttl = 0 /\ Len(p.path) = INITIAL_TTL

\* C19: an offer to an agent whose id already appears in the packet's path, or
\* of a packet whose ttl is 0, leaves the receiver's inbox as it was; any other
\* offer appends exactly one copy, with the offered ttl minus 1 and the offered
\* path plus one hop that ends at the receiver.
C19_AddPacketAcceptRule ==
    \A o \in Range(offers) :
        IF o.to \in Visited(o.packet.path) \/ o.packet.ttl = 0
        THEN o.after = o.before
        ELSE /\ Accepted(o)
             /\ SubSeq(o.after, 1, Len(o.before)) = o.before
             /\ LET stored == o.after[Len(o.after)]
                    n == Len(o.packet.path)
                IN /\ stored.id = o.packet.id
                   /\ stored.source = o.packet.source
                   /\ stored.ttl = o.packet.ttl - 1
                   /\ Len(stored.path) = n + 1
                   /\ SubSeq(stored.path, 1, n) = o.packet.path
                   /\ stored.path[n + 1].to = o.to
                   /\ stored.path[n + 1].from =
                         IF n = 0 THEN o.packet.source ELSE o.packet.path[n].to

C19_Witness ==
    /\ \E o \in Range(offers) :
          o.packet.ttl = 0 /\ o.to \notin Visited(o.packet.path) /\ ~Accepted(o)
    /\ \E o \in Range(offers) :
          o.packet.ttl > 0 /\ o.to \in Visited(o.packet.path) /\ ~Accepted(o)

\* C20: a packet returned by PacketSource::next has the owning agent's id as
\* source, ttl 10, an empty path and the source's sequence number as id; the
\* packets of one source have strictly increasing ids.
C20_PacketSourceNext ==
    /\ \A k \in DOMAIN originated :
          /\ originated[k].packet.source = originated[k].by
          /\ originated[k].packet.ttl = 10
          /\ originated[k].packet.path = <<>>
          /\ (\A j \in DOMAIN originated : j > k => originated[j].by # originated[k].by)
                => originated[k].packet.id =
                      at(entity_comms, originated[k].by).source.sequence_number
    /\ \A j, k \in DOMAIN originated :
          (j < k /\ originated[j].by = originated[k].by)
              => originated[j].packet.id < originated[k].packet.id

C20_Witness ==
    \E j, k \in DOMAIN originated :
        j < k /\ originated[j].by = originated[k].by


\* the copy an accepted offer stored
StoredBy(o) == o.after[Len(o.after)]

\* C31: every packet in any inbox in any reachable state satisfies ttl + path
\* length = 10; each accepted hop lowers ttl by exactly 1 and lengthens the path
\* by exactly 1, and nothing else changes either.
C31_TtlConservation ==
    /\ \A p \in InboxPackets : p.ttl + Len(p.path) = INITIAL_TTL
    /\ \A o \in Range(offers) :
          Accepted(o) =>
              /\ StoredBy(o).ttl = o.packet.ttl - 1
              /\ Len(StoredBy(o).path) = Len(o.packet.path) + 1
              /\ o.packet.ttl + Len(o.packet.path) = INITIAL_TTL
    /\ \A k \in DOMAIN originated :
          originated[k].packet.ttl + Len(originated[k].packet.path) = INITIAL_TTL

\* an inbox holds a packet half way through its hop budget, and the last update
\* had an offer accepted
C31_Witness ==
    /\ \E p \in InboxPackets : p.ttl = 5 /\ Len(p.path) = 5
    /\ \E o \in Range(offers) : Accepted(o) /\ o.packet.ttl = 6

\* C32: for every packet in the inbox of agent a, the first hop's from is the
\* packet's source, each later hop's from equals the previous hop's to, and the
\* last hop's to is a; add_hop never rewrites an existing hop.
C32_PathChaining ==
    /\ \A a \in Ids(entity_comms) :
          \A p \in Range(at(entity_comms, a).packets) :
              /\ p.path # <<>>
              /\ p.path[1].from = p.source
              /\ \A k \in 2..Len(p.path) : p.path[k].from = p.path[k - 1].to
              /\ p.path[Len(p.path)].to = a
    /\ \A o \in Range(offers) :
          Accepted(o) =>
              SubSeq(StoredBy(o).path, 1, Len(o.packet.path)) = o.packet.path

\* an inbox holds a packet that has made three hops or more
C32_Witness ==
    /\ \E p \in InboxPackets : Len(p.path) >= 3
    /\ \E o \in Range(offers) : Accepted(o) /\ Len(o.packet.path) >= 2

\* C33: a packet originated by agent s is never enqueued in s's own inbox, over
\* any relay path: s does not accept back a packet whose source is s, even
\* though s was never a receiver in the path.
C33_NoReturnToOrigin ==
    /\ \A s \in Ids(entity_comms) :
          \A p \in Range(at(entity_comms, s).packets) : p.source # s
    /\ \A o \in Range(offers) : o.to = o.packet.source => ~Accepted(o)

\* a packet with hops left was offered back to its source, which is not a
\* receiver in its path
C33_Witness ==
    \E o \in Range(offers) :
        /\ o.to = o.packet.source
        /\ o.packet.ttl > 0
        /\ o.packet.path # <<>>
        /\ o.to \notin Receivers(o.packet.path)

\* the offers of the step's update that the agent j accepted
AcceptedBy(j) == {k \in DOMAIN offers' : offers'[k].to = j /\ Accepted(offers'[k])}

\* C26: after SatelliteComms::update returns, the updating agent's own inbox is
\* empty, whether or not it had neighbours and whether or not any neighbour
\* accepted; the packets it held exist from then on only as the copies its
\* neighbours accepted.
C26_InboxCleared ==
    [][ \A k \in DOMAIN relayed' :
          /\ at(entity_comms', relayed'[k]).packets = <<>>
          /\ \A j \in 0..(CommsNodes - 1) \ {relayed'[k]} :
                /\ Len(at(entity_comms', j).packets)
                      = Len(at(entity_comms, j).packets) + Cardinality(AcceptedBy(j))
                /\ SubSeq(at(entity_comms', j).packets, 1,
                          Len(at(entity_comms, j).packets))
                      = at(entity_comms, j).packets
      ]_vars

\* an update offered packets, every offer was refused, and no inbox holds a
\* packet any more
C26_Witness ==
    /\ offers # <<>>
    /\ \A o \in Range(offers) : ~Accepted(o)
    /\ InboxPackets = {}


-----------------------------------------------------------------------------
(* Claims about the relay tick, checked under SpecRelay *)

IsPrefix(a, b) == Len(a) <= Len(b) /\ SubSeq(b, 1, Len(a)) = a

\* the copies of the k-th originated packet that the inboxes hold
Copies(k) ==
    {p \in InboxPackets : /\ p.id = originated[k].packet.id
                          /\ p.source = originated[k].packet.source}

Fresh == {originated'[k].packet : k \in (Len(originated) + 1)..Len(originated')}

SamePacket(p, q) == p.id = q.id /\ p.source = q.source

\* C21: within one comms tick (agents relayed one after another in ascending id
\* order) every packet copy advances by at most one hop: a packet delivered into
\* an inbox during the tick is not forwarded again in the same tick, so its path
\* grows by at most 1 per comms tick.
C21_SingleHopPerTick ==
    [][ (relayed' # <<>> /\ entity_comms' # entity_comms) =>
          /\ \A k \in DOMAIN relayed' : relayed'[k] = k - 1
          /\ \A i \in DOMAIN entity_comms' :
               \A p \in Range(entity_comms'[i].packets) :
                  \/ \E q \in Fresh : SamePacket(p, q) /\ Len(p.path) <= 1
                  \/ \E j \in DOMAIN entity_comms :
                        \E q \in Range(entity_comms[j].packets) :
                           /\ SamePacket(p, q)
                           /\ IsPrefix(q.path, p.path)
                           /\ Len(p.path) <= Len(q.path) + 1
      ]_vars


-----------------------------------------------------------------------------
(* Claims about the component's vectors, checked under SpecFacets *)

\* C22: in every reachable state (after create, any tick, any click and any reset
\* via changed) the properties, position, comms and energy vectors have the same
\* length, and the entry at index i of the properties and of the comms vector
\* carries id i.
C22_CoIndexedFacets ==
    /\ Len(entity_positions) = Len(entity_props)
    /\ Len(entity_comms) = Len(entity_props)
    /\ Len(entity_energy) = Len(entity_props)
    /\ \A i \in Ids(entity_props) :
          /\ at(entity_props, i).id = i
          /\ at(entity_comms, i).source.id = i

\* a satellite is selected after a reset to another number of agents: the
\* quadtree kept from before the reset holds another number of entries
C22_Witness ==
    /\ selected_satellite_id # None
    /\ qtree # None
    /\ Len(qtree[1].nodes[<<>>].entries) # Len(entity_props)

\* the agents whose selected flag is set
Selected(props) == {i \in Ids(props) : at(props, i).selected}

\* what a click on agent id leaves
Clicked(id) ==
    /\ IF selected_satellite_id = Some(id)
       THEN selected_satellite_id' = None /\ Selected(entity_props') = {}
       ELSE selected_satellite_id' = Some(id) /\ Selected(entity_props') = {id}
    /\ Len(entity_props') = Len(entity_props)
    /\ \A i \in Ids(entity_props) :
          [at(entity_props', i) EXCEPT !.selected = at(entity_props, i).selected]
              = at(entity_props, i)

\* C37: at most one agent has its selected flag set, selected_satellite_id is
\* Some(i) exactly when agent i's flag is set, and i is always a valid index;
\* clicking the selected agent deselects it, clicking another agent moves the
\* selection.
C37_SingleSelection ==
    /\ [](/\ Cardinality(Selected(entity_props)) <= 1
          /\ \A i \in 0..(MaxBoids - 1) :
                selected_satellite_id = Some(i) <=> i \in Selected(entity_props)
          /\ selected_satellite_id # None => selected_satellite_id[1] \in Ids(entity_props))
    /\ [][\A id \in 0..(MaxBoids - 1) : ClickedSat(id) => Clicked(id)]_vars

\* the last of three agents is selected and a comms tick has rewritten the
\* properties since the component was created
C37_Witness ==
    /\ Len(entity_props) = 3
    /\ selected_satellite_id = Some(2)
    /\ Selected(entity_props) = {2}
    /\ election # None

\* what changed leaves, given the new settings and whether the generation differs
Reset(props_settings, restarted) ==
    IF settings # props_settings \/ restarted
    THEN /\ Len(entity_props') = props_settings.boids
         /\ Len(entity_positions') = props_settings.boids
         /\ Len(entity_comms') = props_settings.boids
         /\ Len(entity_energy') = props_settings.boids
         /\ \A i \in Ids(entity_props') :
               /\ at(entity_props', i).id = i
               /\ at(entity_comms', i).source.id = i
               /\ at(entity_energy', i).id = i
               /\ at(entity_comms', i) = SatelliteComms_new(i)
               /\ ~at(entity_props', i).selected
         /\ cluster_map' = ClusterMap_new
         /\ selected_satellite_id' = None
    ELSE UNCHANGED <<entity_props, entity_positions, entity_comms, entity_energy,
                     cluster_map, selected_satellite_id>>

\* C39: a change of settings or generation rebuilds all four vectors with ids
\* 0..n-1, empties the ClusterMap and clears the selection, so every head id and
\* member id in the ClusterMap is a valid index into the current vectors;
\* unchanged settings and generation leave all agent state untouched.
C39_ResetSafety ==
    /\ [](\A h \in DOMAIN cluster_map :
             /\ h \in Ids(entity_props)
             /\ Range(cluster_map[h].members) \subseteq Ids(entity_props))
    /\ [][\A props_settings \in SettingsDrawn, restarted \in BOOLEAN :
             changed(props_settings, restarted) => Reset(props_settings, restarted)]_vars

\* after a comms tick with three agents and a cluster of two or more, the
\* settings went down to one agent: the map is empty and the quadtree of the
\* tick still holds three entries
C39_Witness ==
    /\ Len(entity_props) = 1
    /\ cluster_map = ClusterMap_new
    /\ qtree # None
    /\ Len(qtree[1].nodes[<<>>].entries) = 3
    /\ election = None


-----------------------------------------------------------------------------
(* Claims about weighted_mean, checked under SpecMean *)

RECURSIVE TotalWeight(_)
TotalWeight(it) == IF it = <<>> THEN 0 ELSE Head(it)[2] + TotalWeight(Tail(it))

RECURSIVE WeightedSum(_)
WeightedSum(it) ==
    IF it = <<>> THEN 0 ELSE Head(it)[1] * Head(it)[2] + WeightedSum(Tail(it))

====
